---- MODULE Spec2Model ----
(***************************************************************************)
(* Design-parity checker (dpc): the compare / quality command pipelines of *)
(* src/main.rs and src/commands/quality.rs, the score combiner of          *)
(* src/metrics/scoring.rs, the image loader of src/image_loader.rs and the *)
(* error payloads of src/error.rs.                                         *)
(*                                                                         *)
(* Conventions.  Option<T> is a sequence of length 0 or 1: None == <<>>,   *)
(* Some(v) == <<v>>.  A text (message, remediation) is a sequence of word  *)
(* tokens, format!() is concatenation.  A fraction is [num, den] with      *)
(* den > 0 and fractions are compared by cross multiplication.             *)
(***************************************************************************)
EXTENDS Integers, Sequences, FiniteSets, TLC

None == <<>>

Some(v) == <<v>>

IsSome(o) == o # <<>>

Unwrap(o) == o[1]

RECURSIVE SumOver(_, _)
SumOver(S, f) ==
  IF S = {} THEN 0
  ELSE LET x == CHOOSE y \in S : TRUE IN f[x] + SumOver(S \ {x}, f)

(***************************************************************************)
(* Score combiner, src/metrics/scoring.rs                                  *)
(***************************************************************************)

\* A score is v / ScoreDen with v in 0..ScoreDen.
ScoreDen == 1

\* A weight is an integer number of weight units in 0..MaxWeight.
MaxWeight == 2

Slots == {"pixel", "layout", "typography", "color", "content"}

ScoreValues == 0 .. ScoreDen

WeightValues == 0 .. MaxWeight

\* MetricScores: five optional slots, a present slot carries its score.
MetricScoresSpace == [Slots -> {None} \cup {Some(v) : v \in ScoreValues}]

\* ScoreWeights: five non-negative weights.
ScoreWeightsSpace == [Slots -> WeightValues]

\* ScoreWeights::default(): 0.35, 0.25, 0.15, 0.15, 0.10 in units of 0.05.
DefaultWeights ==
  [pixel |-> 7, layout |-> 5, typography |-> 3, color |-> 3, content |-> 2]

Frac(n, d) == [num |-> n, den |-> d]

FracGeq(a, b) == a.num * b.den >= b.num * a.den

FracEq(a, b) == a.num * b.den = b.num * a.den

\* Mutant: an absent slot still adds its weight to the denominator.
AccumulateSlot_CountsAbsent(acc, slot, w) ==
  IF IsSome(slot)
    THEN [weighted_sum |-> acc.weighted_sum + w * Unwrap(slot),
          total_weight |-> acc.total_weight + w]
    ELSE [acc EXCEPT !.total_weight = acc.total_weight + w]

\* One `if let Some(ref m) = scores.<slot>` block of calculate_combined_score.
AccumulateSlot(acc, slot, w) ==
  IF IsSome(slot)
    THEN [weighted_sum |-> acc.weighted_sum + w * Unwrap(slot),
          total_weight |-> acc.total_weight + w]
    ELSE acc

\* Mutant: normalises by the number of present slots instead of their weight.
calculate_combined_score_DivByCount(s, w) ==
  LET P  == {k \in Slots : IsSome(s[k])}
      ws == SumOver(P, [k \in Slots |-> w[k] * (IF IsSome(s[k]) THEN Unwrap(s[k]) ELSE 0)])
  IN  IF Cardinality(P) > 0 THEN Frac(ws, Cardinality(P) * ScoreDen) ELSE Frac(0, 1)

\* calculate_combined_score: weighted_sum carries the score numerators, so
\* the quotient weighted_sum / total_weight is weighted_sum / (total_weight * ScoreDen).
calculate_combined_score(s, w) ==
  LET a0 == [weighted_sum |-> 0, total_weight |-> 0]
      a1 == AccumulateSlot(a0, s.pixel, w.pixel)
      a2 == AccumulateSlot(a1, s.layout, w.layout)
      a3 == AccumulateSlot(a2, s.typography, w.typography)
      a4 == AccumulateSlot(a3, s.color, w.color)
      a5 == AccumulateSlot(a4, s.content, w.content)
  IN  IF a5.total_weight > 0
        THEN Frac(a5.weighted_sum, a5.total_weight * ScoreDen)
        ELSE Frac(0, 1)

(***************************************************************************)
(* Results, paths and texts                                                *)
(***************************************************************************)

Ok(v) == [ok |-> TRUE, val |-> v]

Err(e) == [ok |-> FALSE, val |-> e]

\* A path is <<directory, file name>>; Path::new(value) of a bare file name
\* lies in the working directory ".".
PathOf(value) == <<".", value>>

Join(dir, name) == <<dir, name>>

Parent(path) == path[1]

\* path.display() as message tokens.
PathDisplay(path) == IF path[1] = "." THEN <<path[2]>> ELSE <<path[1], path[2]>>

Mentions(text, word) == \E i \in DOMAIN text : text[i] = word

(***************************************************************************)
(* Errors, src/error.rs                                                    *)
(***************************************************************************)

DpcError(variant, msg) == [variant |-> variant, msg |-> msg]

ConfigError(msg) == DpcError("Config", msg)

\* #[error("...")] Display of a DpcError.
DpcErrorDisplay(err) ==
  CASE err.variant = "Io"            -> <<"IO", "error:">> \o err.msg
    [] err.variant = "Network"       -> <<"Network", "error:">> \o err.msg
    [] err.variant = "InvalidUrl"    -> <<"Invalid", "URL:">> \o err.msg
    [] err.variant = "FigmaApi"      -> <<"Figma", "API", "error", "(status:", "None):">> \o err.msg
    [] err.variant = "Image"         -> <<"Image", "processing", "error:">> \o err.msg
    [] err.variant = "Serialization" -> <<"Serialization", "error:">> \o err.msg
    [] err.variant = "Metric"        -> <<"Metric", "computation", "error:">> \o err.msg
    [] err.variant = "Config"        -> <<"Configuration", "error:">> \o err.msg
    [] OTHER                         -> <<"Unexpected", "error:">> \o err.msg

ErrorCategory(variant) ==
  CASE variant = "Io"            -> "config"
    [] variant = "Network"       -> "network"
    [] variant = "InvalidUrl"    -> "config"
    [] variant = "FigmaApi"      -> "figma"
    [] variant = "Image"         -> "image"
    [] variant = "Serialization" -> "config"
    [] variant = "Metric"        -> "metric"
    [] variant = "Config"        -> "config"
    [] OTHER                     -> "unknown"

Remediation(variant) ==
  CASE variant = "Io"            -> <<"Check", "file", "paths/permissions.">>
    [] variant = "Network"       -> <<"Check", "connectivity/proxy/VPN", "and", "retry.">>
    [] variant = "InvalidUrl"    -> <<"Verify", "URL/format", "(e.g.,", "https://example.com).">>
    [] variant = "FigmaApi"      -> <<"Check", "FIGMA_TOKEN", "/", "URL", "and", "rate", "limits;",
                                      "retry", "after", "waiting.">>
    [] variant = "Image"         -> <<"Verify", "image", "path/format", "and", "readability.">>
    [] variant = "Serialization" -> <<"Check", "JSON/serialization", "inputs;", "run", "with",
                                      "--verbose", "for", "details.">>
    [] variant = "Metric"        -> <<"Inspect", "metric", "inputs;", "try", "rerunning", "with",
                                      "--verbose.">>
    [] variant = "Config"        -> <<"Check", "flags/paths", "(e.g.,", "--viewport",
                                      "WIDTHxHEIGHT)", "and", "required", "tokens.">>
    [] OTHER                     -> <<"Re-run", "with", "--verbose;", "file", "an", "issue", "if",
                                      "persistent.">>

\* Mutant: a Config payload is filed under the catch-all category.
to_payload_ConfigAsUnknown(err) ==
  [category    |-> IF err.variant = "Config" THEN "unknown" ELSE ErrorCategory(err.variant),
   message     |-> err.msg,
   remediation |-> Some(Remediation(err.variant))]

\* DpcError::to_payload
to_payload(err) ==
  [category    |-> ErrorCategory(err.variant),
   message     |-> IF err.variant = "FigmaApi"
                     THEN <<"Figma", "API", "error", "(status", "None):">> \o err.msg
                     ELSE err.msg,
   remediation |-> Some(Remediation(err.variant))]

\* ImageLoadError and its Display.
ImageLoadError(kind, text) == [kind |-> kind, text |-> text]

ImageLoadErrorDisplay(e) ==
  CASE e.kind = "Load"     -> <<"Failed", "to", "load", "image:">> \o e.text
    [] e.kind = "NotFound" -> <<"File", "not", "found:">> \o e.text
    [] e.kind = "Save"     -> <<"Failed", "to", "save", "normalized", "image:">> \o e.text
    [] OTHER               -> <<"OCR", "extraction", "failed:">> \o e.text

(***************************************************************************)
(* Image loading, src/image_loader.rs                                      *)
(*                                                                         *)
(* The file system is fs = [files, dirs]: files maps each existing path to *)
(* its content; dirs is the set of existing directories.                   *)
(***************************************************************************)

\* A pixel is "S" (a pixel of the source picture) or "T" (transparent black,
\* RGBA 0,0,0,0).  px maps <<x, y>> to the pixel.
Pixels(w, h) == (0 .. (w - 1)) \X (0 .. (h - 1))

ImageFile(w, h, px) == [w |-> w, h |-> h, decodable |-> TRUE, px |-> px, json |-> None]

Raster(w, h) == ImageFile(w, h, [p \in Pixels(w, h) |-> "S"])

\* A file that is no decodable image; json is its content parsed as a JSON
\* array of regions when it parses as one.
DataFile(json) == [w |-> 0, h |-> 0, decodable |-> FALSE, px |-> <<>>, json |-> json]

Exists(fs, path) == path \in DOMAIN fs.files

WriteFile(fs, path, content) ==
  [fs EXCEPT !.files = (path :> content) @@ fs.files]

\* Mutant: the quotient is truncated.
RoundDiv_Truncated(n, d) == n \div d

\* f64::round of the non-negative quotient n / d (half away from zero).
RoundDiv(n, d) == (2 * n + d) \div (2 * d)

\* The geometry resize_with_letterbox computes: the canvas size, the size of
\* the scaled source and its offsets on the canvas.
LetterboxGeometry(src_w, src_h, target_width, target_height) ==
  LET byWidth == target_width * src_h <= target_height * src_w
      new_w == IF byWidth THEN RoundDiv(src_w * target_width, src_w)
                          ELSE RoundDiv(src_w * target_height, src_h)
      new_h == IF byWidth THEN RoundDiv(src_h * target_width, src_w)
                          ELSE RoundDiv(src_h * target_height, src_h)
  IN  [w |-> target_width, h |-> target_height,
       new_w |-> new_w, new_h |-> new_h,
       offset_x |-> (target_width - new_w) \div 2,
       offset_y |-> (target_height - new_h) \div 2]

\* The canvas: the scaled source ("S") overlaid on a transparent ("T") canvas.
LetterboxCanvas(box) ==
  ImageFile(box.w, box.h,
            [p \in Pixels(box.w, box.h) |->
               IF /\ box.offset_x <= p[1] /\ p[1] < box.offset_x + box.new_w
                  /\ box.offset_y <= p[2] /\ p[2] < box.offset_y + box.new_h
                 THEN "S" ELSE "T"])

\* resize_with_letterbox
resize_with_letterbox(img, target_width, target_height) ==
  LetterboxCanvas(LetterboxGeometry(img.w, img.h, target_width, target_height))

\* Mutant: a missing file is reported as a decode failure.
load_image_NoExistsCheck(fs, path) ==
  IF Exists(fs, path) /\ fs.files[path].decodable THEN Ok(fs.files[path])
  ELSE Err(ImageLoadError("Load", <<"decode", "error">>))

\* load_image
load_image(fs, path) ==
  IF ~Exists(fs, path) THEN Err(ImageLoadError("NotFound", PathDisplay(path)))
  ELSE IF ~fs.files[path].decodable THEN Err(ImageLoadError("Load", <<"decode", "error">>))
  ELSE Ok(fs.files[path])

NormalizedView(kind, path, w, h, dom, figma_tree, ocr_blocks) ==
  [kind |-> kind, screenshot_path |-> path, width |-> w, height |-> h,
   dom |-> dom, figma_tree |-> figma_tree, ocr_blocks |-> ocr_blocks]

\* let (final_img, width, height) = ...
FinalImage(img, options) ==
  IF options.no_resize THEN img
  ELSE IF IsSome(options.target_width) /\ IsSome(options.target_height)
    THEN resize_with_letterbox(img, Unwrap(options.target_width),
                               Unwrap(options.target_height))
  ELSE img

\* Mutant: the view reports the source dimensions even when it was resized.
FinalSize_SourceAlways(img, options) == [width |-> img.w, height |-> img.h]

\* The (width, height) of let (final_img, width, height) = ...
FinalSize(img, options) ==
  IF options.no_resize THEN [width |-> img.w, height |-> img.h]
  ELSE IF IsSome(options.target_width) /\ IsSome(options.target_height)
    THEN [width |-> Unwrap(options.target_width), height |-> Unwrap(options.target_height)]
  ELSE [width |-> img.w, height |-> img.h]

\* Mutant: any OCR failure is swallowed.
OcrBlocks_AllFailuresIgnored(options, io) ==
  IF options.enable_ocr /\ io.ocr = "blocks" THEN Ok(Some(<<"block">>)) ELSE Ok(None)

\* let ocr_blocks = if options.enable_ocr { match ocr::extract_text_blocks(..) }
\* io.ocr is the OCR backend's answer: "blocks" or "empty" (text blocks found or
\* none found), "not_available" or "error".
OcrBlocks(options, io) ==
  IF ~options.enable_ocr THEN Ok(None)
  ELSE IF io.ocr = "blocks" THEN Ok(Some(<<"block">>))
  ELSE IF io.ocr = "empty" THEN Ok(Some(<<>>))
  ELSE IF io.ocr = "not_available" THEN Ok(None)
  ELSE Err(ImageLoadError("Ocr", <<"ocr", "failed">>))

\* The OCR step and the view returned, once final_img is saved.
ViewOfSaved(fs, output_path, size, ocr_blocks) ==
  IF ~ocr_blocks.ok
    THEN [res |-> ocr_blocks, fs |-> fs]
    ELSE [res |-> Ok(NormalizedView("Image", output_path, size.width, size.height,
                                    None, None, ocr_blocks.val)),
          fs |-> fs]

\* final_img.save(out_path); io.fault = "save" makes the write fail.
SaveFinal(fs, output_path, final_img, size, options, io) ==
  IF io.fault = "save"
    THEN [res |-> Err(ImageLoadError("Save", <<"write", "failed">>)), fs |-> fs]
    ELSE ViewOfSaved(WriteFile(fs, output_path, final_img), output_path, size,
                     OcrBlocks(options, io))

\* image_to_normalized_view.  The result is [res, fs]: the Result and the
\* file system afterwards.
image_to_normalized_view(fs, path, output_path, options, io) ==
  IF ~load_image(fs, path).ok THEN [res |-> load_image(fs, path), fs |-> fs]
  ELSE SaveFinal([fs EXCEPT !.dirs = fs.dirs \cup {Parent(output_path)}], output_path,
                 FinalImage(load_image(fs, path).val, options),
                 FinalSize(load_image(fs, path).val, options), options, io)

(***************************************************************************)
(* Environment and mock-render override, src/main.rs                       *)
(***************************************************************************)

Prefixes == {"ref", "impl", "input"}

\* format!("DPC_MOCK_RENDER_{}", prefix.to_ascii_uppercase())
MockRenderKey(prefix) ==
  CASE prefix = "ref"  -> "DPC_MOCK_RENDER_REF"
    [] prefix = "impl" -> "DPC_MOCK_RENDER_IMPL"
    [] OTHER           -> "DPC_MOCK_RENDER_INPUT"

\* The same variable without the DPC_ prefix, as a caller might spell it.
UnprefixedMockRenderKey(prefix) ==
  CASE prefix = "ref"  -> "MOCK_RENDER_REF"
    [] prefix = "impl" -> "MOCK_RENDER_IMPL"
    [] OTHER           -> "MOCK_RENDER_INPUT"

\* format!("{prefix}.png"), format!("{}_screenshot.png", prefix), ...
PngName(prefix) ==
  CASE prefix = "ref" -> "ref.png" [] prefix = "impl" -> "impl.png" [] OTHER -> "input.png"

ScreenshotName(prefix) ==
  CASE prefix = "ref"  -> "ref_screenshot.png"
    [] prefix = "impl" -> "impl_screenshot.png"
    [] OTHER           -> "input_screenshot.png"

FigmaName(prefix) ==
  CASE prefix = "ref"  -> "ref_figma.png"
    [] prefix = "impl" -> "impl_figma.png"
    [] OTHER           -> "input_figma.png"

MaskedName(prefix) ==
  CASE prefix = "ref"  -> "ref_masked.png"
    [] prefix = "impl" -> "impl_masked.png"
    [] OTHER           -> "input_masked.png"

EnvVars ==
  {MockRenderKey(p) : p \in Prefixes} \cup {UnprefixedMockRenderKey(p) : p \in Prefixes}
    \cup {"DPC_MOCK_RENDERERS_DIR", "MOCK_RENDERERS_DIR", "FIGMA_TOKEN", "FIGMA_OAUTH_TOKEN"}

\* std::env::var(key).ok()
EnvVar(env, key) == env[key]

\* path.trim().is_empty() on the values an environment variable takes here.
TrimIsEmpty(value) == value \in {"", " "}

\* Mutant: only the empty string counts as unset, a blank value is a path.
mock_render_image_path_NoTrim(prefix, env, fs) ==
  LET v == EnvVar(env, MockRenderKey(prefix))
      d == EnvVar(env, "DPC_MOCK_RENDERERS_DIR")
  IN  IF IsSome(v) /\ Unwrap(v) # "" THEN Some(PathOf(Unwrap(v)))
      ELSE IF IsSome(d) /\ Exists(fs, Join(Unwrap(d), PngName(prefix)))
        THEN Some(Join(Unwrap(d), PngName(prefix)))
        ELSE None

\* mock_render_image_path
mock_render_image_path(prefix, env, fs) ==
  LET v == EnvVar(env, MockRenderKey(prefix))
      d == EnvVar(env, "DPC_MOCK_RENDERERS_DIR")
  IN  IF IsSome(v) /\ ~TrimIsEmpty(Unwrap(v)) THEN Some(PathOf(Unwrap(v)))
      ELSE IF IsSome(d) /\ Exists(fs, Join(Unwrap(d), PngName(prefix)))
        THEN Some(Join(Unwrap(d), PngName(prefix)))
        ELSE None

(***************************************************************************)
(* DOM snapshots and the selector filter, src/main.rs                      *)
(*                                                                         *)
(* Strings that are inspected character by character (ids, tags, class     *)
(* lists, selectors) are sequences of one-character strings.               *)
(***************************************************************************)

UpperChars ==
  <<"A", "B", "C", "D", "E", "F", "G", "H", "I", "J", "K", "L", "M",
    "N", "O", "P", "Q", "R", "S", "T", "U", "V", "W", "X", "Y", "Z">>

LowerChars ==
  <<"a", "b", "c", "d", "e", "f", "g", "h", "i", "j", "k", "l", "m",
    "n", "o", "p", "q", "r", "s", "t", "u", "v", "w", "x", "y", "z">>

LowerChar(c) ==
  IF \E i \in DOMAIN UpperChars : UpperChars[i] = c
    THEN LowerChars[CHOOSE i \in DOMAIN UpperChars : UpperChars[i] = c]
    ELSE c

to_ascii_lowercase(str) == [i \in DOMAIN str |-> LowerChar(str[i])]

eq_ignore_ascii_case(a, b) == to_ascii_lowercase(a) = to_ascii_lowercase(b)

IsWhitespace(c) == c \in {" ", "\t", "\n"}

RECURSIVE SplitFrom(_, _, _)
SplitFrom(str, i, cur) ==
  IF i > Len(str) THEN (IF cur = <<>> THEN <<>> ELSE <<cur>>)
  ELSE IF IsWhitespace(str[i])
    THEN (IF cur = <<>> THEN SplitFrom(str, i + 1, <<>>)
                        ELSE <<cur>> \o SplitFrom(str, i + 1, <<>>))
    ELSE SplitFrom(str, i + 1, Append(cur, str[i]))

\* str::split_whitespace
split_whitespace(str) == SplitFrom(str, 1, <<>>)

\* str::strip_prefix(char)
strip_prefix(str, c) ==
  IF Len(str) > 0 /\ str[1] = c THEN Some(Tail(str)) ELSE None

\* HashMap::get on a node's attributes (a function from "id"/"class" to values).
AttrGet(attributes, key) ==
  IF key \in DOMAIN attributes THEN Some(attributes[key]) ELSE None

DomNode(id, tag, attributes) ==
  [id |-> id, tag |-> tag, children |-> <<>>, parent |-> None,
   attributes |-> attributes, text |-> None]

\* selector_matches
selector_matches(node, selector) ==
  IF IsSome(strip_prefix(selector, "#")) THEN
    LET id      == to_ascii_lowercase(Unwrap(strip_prefix(selector, "#")))
        attr    == AttrGet(node.attributes, "id")
        attr_id == IF IsSome(attr) THEN to_ascii_lowercase(Unwrap(attr)) ELSE <<>>
        node_id == to_ascii_lowercase(node.id)
    IN  attr_id = id \/ node_id = id
  ELSE IF IsSome(strip_prefix(selector, ".")) THEN
    LET class == to_ascii_lowercase(Unwrap(strip_prefix(selector, ".")))
        attr  == AttrGet(node.attributes, "class")
    IN  /\ IsSome(attr)
        /\ \E i \in DOMAIN split_whitespace(Unwrap(attr)) :
             eq_ignore_ascii_case(split_whitespace(Unwrap(attr))[i], class)
  ELSE eq_ignore_ascii_case(node.tag, selector)

\* matches_any_selector
matches_any_selector(node, selectors) ==
  \E i \in DOMAIN selectors : selector_matches(node, selectors[i])

\* A filter that stops at the first node it removes.
RECURSIVE FilterNodes_FirstMatchOnly(_, _)
FilterNodes_FirstMatchOnly(nodes, selectors) ==
  IF nodes = <<>> THEN <<>>
  ELSE IF matches_any_selector(Head(nodes), selectors)
    THEN Tail(nodes)
    ELSE <<Head(nodes)>> \o FilterNodes_FirstMatchOnly(Tail(nodes), selectors)

\* dom.nodes.iter().filter(|node| !matches_any_selector(node, selectors)).cloned().collect()
RECURSIVE FilterNodes(_, _)
FilterNodes(nodes, selectors) ==
  IF nodes = <<>> THEN <<>>
  ELSE IF matches_any_selector(Head(nodes), selectors)
    THEN FilterNodes(Tail(nodes), selectors)
    ELSE <<Head(nodes)>> \o FilterNodes(Tail(nodes), selectors)

\* apply_dom_ignores
apply_dom_ignores(view, selectors) ==
  IF selectors = <<>> THEN view
  ELSE IF IsSome(view.dom)
    THEN [view EXCEPT !.dom =
            Some([Unwrap(view.dom) EXCEPT !.nodes = FilterNodes(Unwrap(view.dom).nodes, selectors)])]
    ELSE view

(***************************************************************************)
(* Render backends (browser and Figma client of the library crate)         *)
(***************************************************************************)

\* The DOM snapshot the browser backend captures for a rendered page.
RenderedDom ==
  [url |-> None, title |-> None,
   nodes |-> << DomNode(<<"h", "e", "r", "o">>, <<"d", "i", "v">>,
                        [class |-> <<"b", "a", "n", "n", "e", "r">>]),
                DomNode(<<"p", "1">>, <<"p">>, <<>>) >>]

RenderedFigmaTree(file_key, node_id) ==
  [file_key |-> file_key, node_id |-> node_id, name |-> None, nodes |-> <<>>]

\* url_to_normalized_view: renders the page to screenshot_path at the
\* viewport size and captures its DOM, or fails in the backend.
url_to_normalized_view(fs, url, screenshot_path, options, io) ==
  IF io.fault = "backend"
    THEN [res |-> Err(<<"Network", "error:", "connection", "refused">>), fs |-> fs]
    ELSE [res |-> Ok(NormalizedView("Url", screenshot_path, options.viewport.width,
                                    options.viewport.height, Some(RenderedDom), None, None)),
          fs  |-> WriteFile(fs, screenshot_path,
                            Raster(options.viewport.width, options.viewport.height))]

\* figma_to_normalized_view: exports the node to options.output_path and
\* captures the Figma tree, or fails in the backend.
figma_to_normalized_view(fs, options, io) ==
  IF io.fault = "backend"
    THEN [res |-> Err(<<"Figma", "API", "error", "(status:", "Some(403)):", "Forbidden">>),
          fs |-> fs]
    ELSE [res |-> Ok(NormalizedView("Figma", options.output_path,
                                    Unwrap(options.viewport).width,
                                    Unwrap(options.viewport).height, None,
                                    Some(RenderedFigmaTree(options.file_key, options.node_id)),
                                    None)),
          fs  |-> WriteFile(fs, options.output_path,
                            Raster(Unwrap(options.viewport).width,
                                   Unwrap(options.viewport).height))]

\* FigmaAuth::from_env: a credential is found in FIGMA_TOKEN or FIGMA_OAUTH_TOKEN.
FigmaAuth_from_env(env) ==
  IF IsSome(EnvVar(env, "FIGMA_TOKEN")) THEN EnvVar(env, "FIGMA_TOKEN")
  ELSE EnvVar(env, "FIGMA_OAUTH_TOKEN")

(***************************************************************************)
(* Ingestion: resource_to_normalized_view, src/main.rs                     *)
(***************************************************************************)

ParsedResource(kind, value, figma_info) ==
  [kind |-> kind, value |-> value, figma_info |-> figma_info]

FigmaInfo(file_key, node_id) == [file_key |-> file_key, node_id |-> node_id]

\* ImageLoadOptions built by resource_to_normalized_view.
ViewportLoadOptions(viewport) ==
  [no_resize |-> FALSE, target_width |-> Some(viewport.width),
   target_height |-> Some(viewport.height), enable_ocr |-> FALSE]

\* The Image arm (and the mock branch): image_to_normalized_view into
\* artifacts_dir/<prefix>_screenshot.png, the error prefixed with `label`.
ImageBranch(fs, path, viewport, artifacts_dir, prefix, label, io) ==
  LET r == image_to_normalized_view(fs, path, Join(artifacts_dir, ScreenshotName(prefix)),
                                    ViewportLoadOptions(viewport), io)
  IN  [res |-> IF r.res.ok THEN r.res
                           ELSE Err(label \o ImageLoadErrorDisplay(r.res.val)),
       fs  |-> r.fs]

\* The Url arm.
UrlBranch(fs, resource, viewport, artifacts_dir, prefix, io) ==
  LET r == url_to_normalized_view(fs, resource.value,
                                  Join(artifacts_dir, ScreenshotName(prefix)),
                                  [viewport |-> viewport], io)
  IN  [res   |-> IF r.res.ok THEN r.res
                             ELSE Err(<<"URL", "rendering", "failed:">> \o r.res.val),
       fs    |-> r.fs,
       trace |-> <<"url_to_normalized_view">>]

\* The Figma arm: file key, node-id and credential checks, then the client.
FigmaBranch(fs, resource, viewport, artifacts_dir, prefix, env, io) ==
  IF ~IsSome(resource.figma_info) THEN
    [res |-> Err(DpcErrorDisplay(ConfigError(<<"Missing", "Figma", "file", "key">>))),
     fs |-> fs, trace |-> <<"figma_info">>]
  ELSE IF ~IsSome(Unwrap(resource.figma_info).node_id) THEN
    [res |-> Err(DpcErrorDisplay(ConfigError(<<"Figma", "node-id", "is", "required">>))),
     fs |-> fs, trace |-> <<"figma_info", "node_id">>]
  ELSE IF ~IsSome(FigmaAuth_from_env(env)) THEN
    [res |-> Err(DpcErrorDisplay(ConfigError(
                   <<"Figma", "token", "missing;", "set", "FIGMA_TOKEN", "or",
                     "FIGMA_OAUTH_TOKEN">>))),
     fs |-> fs, trace |-> <<"figma_info", "node_id", "FigmaAuth::from_env">>]
  ELSE IF io.fault = "client" THEN
    [res |-> Err(<<"Figma", "client", "error:", "invalid", "token">>),
     fs |-> fs,
     trace |-> <<"figma_info", "node_id", "FigmaAuth::from_env", "FigmaClient::from_auth">>]
  ELSE
    LET r == figma_to_normalized_view(fs,
               [file_key    |-> Unwrap(resource.figma_info).file_key,
                node_id     |-> Unwrap(Unwrap(resource.figma_info).node_id),
                output_path |-> Join(artifacts_dir, FigmaName(prefix)),
                viewport    |-> Some(viewport),
                scale       |-> 1], io)
    IN  [res   |-> IF r.res.ok THEN r.res
                               ELSE Err(<<"Figma", "rendering", "failed:">> \o r.res.val),
         fs    |-> r.fs,
         trace |-> <<"figma_info", "node_id", "FigmaAuth::from_env",
                     "FigmaClient::from_auth", "figma_to_normalized_view">>]

\* Mutant: the mock override is looked up for Image resources as well.
MockApplies_AnyKind(resource, prefix, env, fs) ==
  IsSome(mock_render_image_path(prefix, env, fs))

\* The guard of the mock branch: kind is Url or Figma and a mock path resolves.
MockApplies(resource, prefix, env, fs) ==
  /\ resource.kind \in {"Url", "Figma"}
  /\ IsSome(mock_render_image_path(prefix, env, fs))

\* resource_to_normalized_view.  The result is [res, fs, trace, image_path]:
\* the Result (a view, or the boxed error's Display text), the file system
\* afterwards, the calls made on the way and the path handed to
\* image_to_normalized_view, if any.
resource_to_normalized_view(resource, viewport, artifacts_dir, prefix, env, fs, io) ==
  IF MockApplies(resource, prefix, env, fs) THEN
    LET r == ImageBranch(fs, Unwrap(mock_render_image_path(prefix, env, fs)), viewport,
                         artifacts_dir, prefix, <<"Mock", "rendering", "failed:">>, io)
    IN  [res |-> r.res, fs |-> r.fs,
         trace |-> <<"mock_render_image_path", "image_to_normalized_view">>,
         image_path |-> mock_render_image_path(prefix, env, fs)]
  ELSE
    LET consulted == IF resource.kind \in {"Url", "Figma"}
                       THEN <<"mock_render_image_path">> ELSE <<>>
    IN
    CASE resource.kind = "Image" ->
           LET r == ImageBranch(fs, PathOf(resource.value), viewport, artifacts_dir, prefix,
                                <<"Image", "loading", "failed:">>, io)
           IN  [res |-> r.res, fs |-> r.fs,
                trace |-> consulted \o <<"image_to_normalized_view">>,
                image_path |-> Some(PathOf(resource.value))]
      [] resource.kind = "Url" ->
           LET r == UrlBranch(fs, resource, viewport, artifacts_dir, prefix, io)
           IN  [res |-> r.res, fs |-> r.fs, trace |-> consulted \o r.trace,
                image_path |-> None]
      [] OTHER ->
           LET r == FigmaBranch(fs, resource, viewport, artifacts_dir, prefix, env, io)
           IN  [res |-> r.res, fs |-> r.fs, trace |-> consulted \o r.trace,
                image_path |-> None]

(***************************************************************************)
(* Ignore regions, src/main.rs                                             *)
(***************************************************************************)

\* Region coordinates are n / RegionDen.
RegionDen == 2

IgnoreRegion(x, y, width, height) == [x |-> x, y |-> y, width |-> width, height |-> height]

Max(a, b) == IF a >= b THEN a ELSE b

Min(a, b) == IF a <= b THEN a ELSE b

\* floor and ceil of n / RegionDen.
Floor(n) == n \div RegionDen

Ceil(n) == -((-n) \div RegionDen)

\* Mutant: a file with zero regions is accepted as an empty list.
load_ignore_regions_AcceptsEmpty(fs, path) ==
  IF ~Exists(fs, path)
    THEN Err(ConfigError(<<"Failed", "to", "read", "ignore-regions:", "No", "such", "file">>))
  ELSE IF ~IsSome(fs.files[path].json)
    THEN Err(ConfigError(<<"Invalid", "ignore-regions", "JSON">>))
  ELSE Ok(Unwrap(fs.files[path].json))

\* load_ignore_regions
load_ignore_regions(fs, path) ==
  IF ~Exists(fs, path)
    THEN Err(ConfigError(<<"Failed", "to", "read", "ignore-regions:", "No", "such", "file">>))
  ELSE IF ~IsSome(fs.files[path].json)
    THEN Err(ConfigError(<<"Invalid", "ignore-regions", "JSON", "(expected", "array", "of",
                           "{x,y,width,height};", "w/h", "aliases", "allowed):", "syntax">>))
  ELSE IF Unwrap(fs.files[path].json) = <<>>
    THEN Err(ConfigError(<<"ignore-regions", "file", "contained", "no", "regions">>))
  ELSE Ok(Unwrap(fs.files[path].json))

\* Mutant: the region is normalized whenever all four values are <= 1.0.
use_normalized_NoSignCheck(region) ==
  /\ region.x <= RegionDen /\ region.y <= RegionDen
  /\ region.width <= RegionDen /\ region.height <= RegionDen

\* let use_normalized = ...
use_normalized(region) ==
  /\ region.x >= 0 /\ region.y >= 0
  /\ region.x <= RegionDen /\ region.y <= RegionDen
  /\ region.width <= RegionDen /\ region.height <= RegionDen

\* The pixel rectangle [x_start, x_end) x [y_start, y_end) one region clears.
RegionBounds(region, img_w, img_h) ==
  LET norm == use_normalized(region)
      rx == IF norm THEN region.x * img_w ELSE region.x
      ry == IF norm THEN region.y * img_h ELSE region.y
      rw == IF norm THEN region.width * img_w ELSE region.width
      rh == IF norm THEN region.height * img_h ELSE region.height
      x0 == Floor(Max(rx, 0))
      y0 == Floor(Max(ry, 0))
      x1 == Max(Ceil(rx + rw), 0)
      y1 == Max(Ceil(ry + rh), 0)
  IN  [x_start |-> Min(x0, img_w), y_start |-> Min(y0, img_h),
       x_end |-> Min(x1, img_w), y_end |-> Min(y1, img_h)]

\* Mutant: regions of zero or negative width or height are not skipped.
MaskRegion_NoSkip(image, region) ==
  LET b == RegionBounds(region, image.w, image.h) IN
  [image EXCEPT !.px =
     [p \in DOMAIN image.px |->
        IF /\ b.x_start <= p[1] /\ p[1] < b.x_end
           /\ b.y_start <= p[2] /\ p[2] < b.y_end
          THEN "T" ELSE image.px[p]]]

\* One iteration of `for region in regions`.
MaskRegion(image, region) ==
  IF region.width <= 0 \/ region.height <= 0 THEN image
  ELSE LET b == RegionBounds(region, image.w, image.h) IN
       [image EXCEPT !.px =
          [p \in DOMAIN image.px |->
             IF /\ b.x_start <= p[1] /\ p[1] < b.x_end
                /\ b.y_start <= p[2] /\ p[2] < b.y_end
               THEN "T" ELSE image.px[p]]]

RECURSIVE MaskRegions(_, _)
MaskRegions(image, regions) ==
  IF regions = <<>> THEN image
  ELSE MaskRegions(MaskRegion(image, Head(regions)), Tail(regions))

\* Mutant: the masked raster is saved over the view's own screenshot.
apply_ignore_regions_InPlace(fs, view, regions, artifacts_dir, prefix, io) ==
  IF regions = <<>> THEN [res |-> Ok(view), fs |-> fs]
  ELSE IF ~load_image(fs, view.screenshot_path).ok
    THEN [res |-> Err(DpcError("Image", <<"cannot", "open", "screenshot">>)), fs |-> fs]
  ELSE [res |-> Ok([view EXCEPT !.screenshot_path = Join(artifacts_dir, MaskedName(prefix))]),
        fs  |-> WriteFile(WriteFile(fs, view.screenshot_path,
                                    MaskRegions(load_image(fs, view.screenshot_path).val,
                                                regions)),
                          Join(artifacts_dir, MaskedName(prefix)),
                          MaskRegions(load_image(fs, view.screenshot_path).val, regions))]

\* apply_ignore_regions.  The result is [res, fs].
apply_ignore_regions(fs, view, regions, artifacts_dir, prefix, io) ==
  IF regions = <<>> THEN [res |-> Ok(view), fs |-> fs]
  ELSE
    LET opened == load_image(fs, view.screenshot_path) IN
    IF ~opened.ok
      THEN [res |-> Err(DpcError("Image", <<"cannot", "open", "screenshot">>)), fs |-> fs]
    ELSE IF io.fault = "save"
      THEN [res |-> Err(ConfigError(<<"Failed", "to", "save", "masked", "screenshot:",
                                      "write", "failed">>)),
            fs |-> fs]
    ELSE
      LET masked_path == Join(artifacts_dir, MaskedName(prefix)) IN
      [res |-> Ok([view EXCEPT !.screenshot_path = masked_path]),
       fs  |-> WriteFile(fs, masked_path, MaskRegions(opened.val, regions))]

(***************************************************************************)
(* Command-line helpers, src/main.rs                                       *)
(***************************************************************************)

\* A raw argument is [name, form]: form "bare" for `--flag`, "eq" for
\* `--flag=value`, "value" for a positional value (its name is the value).
Arg(name, form) == [name |-> name, form |-> form]

\* Mutant: only the form `--flag value` counts as the flag being given.
flag_present_BareOnly(args, flag) ==
  \E i \in DOMAIN args : args[i].name = flag /\ args[i].form = "bare"

\* flag_present: arg == flag || arg.starts_with("{flag}=")
flag_present(args, flag) ==
  \E i \in DOMAIN args : args[i].name = flag /\ args[i].form \in {"bare", "eq"}

\* CompareFlagSources::from_args
CompareFlagSources_from_args(args) ==
  [viewport             |-> flag_present(args, "--viewport"),
   threshold            |-> flag_present(args, "--threshold"),
   nav_timeout          |-> flag_present(args, "--nav-timeout"),
   network_idle_timeout |-> flag_present(args, "--network-idle-timeout"),
   process_timeout      |-> flag_present(args, "--process-timeout")]

\* resolve_compare_settings
resolve_compare_settings(cli_viewport, cli_threshold, cli_nav_timeout, cli_network_idle_timeout, cli_process_timeout, config, flags) ==
  [viewport  |-> IF flags.viewport THEN cli_viewport ELSE config.viewport,
   threshold |-> IF flags.threshold THEN cli_threshold ELSE config.threshold,
   nav_timeout |-> IF flags.nav_timeout THEN cli_nav_timeout ELSE config.timeouts.navigation,
   network_idle_timeout |-> IF flags.network_idle_timeout THEN cli_network_idle_timeout
                                                          ELSE config.timeouts.network_idle,
   process_timeout |-> IF flags.process_timeout THEN cli_process_timeout
                                                ELSE config.timeouts.process,
   weights |-> config.metric_weights]

\* resolve_artifacts_dir: the given directory, or a fresh one under the
\* system temp directory; the flag tells whether it came from the command line.
resolve_artifacts_dir(custom) ==
  IF IsSome(custom) THEN <<Unwrap(custom), TRUE>> ELSE <<"tmp/dpc-pid-ts", FALSE>>

\* MetricKind::from_str
MetricKind_from_str(item) ==
  CASE item = "pixel"      -> Ok("Pixel")
    [] item = "layout"     -> Ok("Layout")
    [] item = "typography" -> Ok("Typography")
    [] item = "color"      -> Ok("Color")
    [] item = "content"    -> Ok("Content")
    [] OTHER               -> Err(<<"unknown", "metric">>)

RECURSIVE ParseKinds(_)
ParseKinds(items) ==
  IF items = <<>> THEN Ok(<<>>)
  ELSE LET k == MetricKind_from_str(Head(items)) IN
       IF ~k.ok THEN Err(<<"invalid", "metric", "kind", Head(items)>> \o k.val)
       ELSE LET rest == ParseKinds(Tail(items)) IN
            IF rest.ok THEN Ok(<<k.val>> \o rest.val) ELSE rest

\* parse_metric_kinds
parse_metric_kinds(kinds) == IF IsSome(kinds) THEN ParseKinds(Unwrap(kinds)) ELSE Ok(<<>>)

\* str::trim
RECURSIVE TrimStart(_)
TrimStart(str) ==
  IF str # <<>> /\ IsWhitespace(Head(str)) THEN TrimStart(Tail(str)) ELSE str

RECURSIVE TrimEnd(_)
TrimEnd(str) ==
  IF str # <<>> /\ IsWhitespace(str[Len(str)])
    THEN TrimEnd(SubSeq(str, 1, Len(str) - 1)) ELSE str

Trim(str) == TrimEnd(TrimStart(str))

\* str::split(','): the parts between commas, empty parts included.
RECURSIVE SplitComma(_, _)
SplitComma(str, cur) ==
  IF str = <<>> THEN <<cur>>
  ELSE IF Head(str) = "," THEN <<cur>> \o SplitComma(Tail(str), <<>>)
  ELSE SplitComma(Tail(str), Append(cur, Head(str)))

\* Mutant: the parts are lowercased but not trimmed.
RECURSIVE KeepNormalized_NoTrim(_)
KeepNormalized_NoTrim(parts) ==
  IF parts = <<>> THEN <<>>
  ELSE LET trimmed == to_ascii_lowercase(Head(parts)) IN
       IF trimmed = <<>> THEN KeepNormalized_NoTrim(Tail(parts))
       ELSE <<trimmed>> \o KeepNormalized_NoTrim(Tail(parts))

\* .filter_map(|part| { let trimmed = part.trim().to_ascii_lowercase(); ... })
RECURSIVE KeepNormalized(_)
KeepNormalized(parts) ==
  IF parts = <<>> THEN <<>>
  ELSE LET trimmed == to_ascii_lowercase(Trim(Head(parts))) IN
       IF trimmed = <<>> THEN KeepNormalized(Tail(parts))
       ELSE <<trimmed>> \o KeepNormalized(Tail(parts))

\* parse_ignore_selectors
parse_ignore_selectors(raw) ==
  IF IsSome(raw) THEN KeepNormalized(SplitComma(Unwrap(raw), <<>>)) ELSE <<>>

\* MetricScores slot of a MetricKind.
SlotOf(kind) ==
  CASE kind = "Pixel" -> "pixel" [] kind = "Layout" -> "layout"
    [] kind = "Typography" -> "typography" [] kind = "Color" -> "color"
    [] OTHER -> "content"

\* Mutant: the default set is used whenever the selection is empty.
effective_metrics_IgnoresDom(selected_metrics, ref_view, impl_view) ==
  IF selected_metrics = <<>> THEN <<"Pixel", "Color">> ELSE selected_metrics

\* let effective_metrics = ...
effective_metrics(selected_metrics, ref_view, impl_view) ==
  IF selected_metrics = <<>> /\ ~IsSome(ref_view.dom) /\ ~IsSome(impl_view.dom)
    THEN <<"Pixel", "Color">>
    ELSE selected_metrics

\* Whether a metric has the inputs it needs: the raster metrics always do,
\* the structural ones need DOM or Figma metadata on both sides.
MetricCanRun(kind, ref_view, impl_view) ==
  \/ kind \in {"Pixel", "Color"}
  \/ /\ IsSome(ref_view.dom) \/ IsSome(ref_view.figma_tree)
     /\ IsSome(impl_view.dom) \/ IsSome(impl_view.figma_tree)

\* run_metrics: the possible results.  A slot is filled only for a selected
\* metric that can run; an internal failure is Err.
run_metrics_results(effective, ref_view, impl_view) ==
  LET selected == {SlotOf(effective[i]) : i \in DOMAIN effective}
      runs(k)  == \E i \in DOMAIN effective :
                    SlotOf(effective[i]) = k /\ MetricCanRun(effective[i], ref_view, impl_view)
      R        == {k \in Slots : runs(k)}
  IN  {Ok([k \in Slots |-> IF k \in R THEN Some(f[k]) ELSE None]) : f \in [R -> ScoreValues]}
        \cup {Err(<<"Metric", "computation", "error:", "internal">>)}

(***************************************************************************)
(* Artifacts and output, src/main.rs                                       *)
(***************************************************************************)

\* generate_diff_heatmap: opens both screenshots and saves the heat map.
generate_diff_heatmap(fs, ref_path, impl_path, output_path, io) ==
  IF ~load_image(fs, ref_path).ok \/ ~load_image(fs, impl_path).ok
    THEN [res |-> Err(DpcError("Image", <<"cannot", "open", "screenshot">>)), fs |-> fs]
  ELSE IF io.fault = "heatmap"
    THEN [res |-> Err(ConfigError(<<"Failed", "to", "save", "diff", "heatmap:", "write",
                                    "failed">>)),
          fs |-> fs]
  ELSE [res |-> Ok(output_path),
        fs  |-> WriteFile(fs, output_path,
                          Raster(fs.files[ref_path].w, fs.files[ref_path].h))]

\* Mutant: only the DOM snapshots are written.
SnapshotWrites_DomOnly(ref_view, impl_view) ==
  (IF IsSome(ref_view.dom) THEN <<"ref_dom.json">> ELSE <<>>)
    \o (IF IsSome(impl_view.dom) THEN <<"impl_dom.json">> ELSE <<>>)

\* The snapshot files persist_compare_artifacts writes, in the order it writes them.
SnapshotWrites(ref_view, impl_view) ==
  (IF IsSome(ref_view.dom) THEN <<"ref_dom.json">> ELSE <<>>)
    \o (IF IsSome(impl_view.dom) THEN <<"impl_dom.json">> ELSE <<>>)
    \o (IF IsSome(ref_view.figma_tree) THEN <<"ref_figma.json">> ELSE <<>>)
    \o (IF IsSome(impl_view.figma_tree) THEN <<"impl_figma.json">> ELSE <<>>)

RECURSIVE WriteAll(_, _, _)
WriteAll(fs, dir, names) ==
  IF names = <<>> THEN fs
  ELSE WriteAll(WriteFile(fs, Join(dir, Head(names)), DataFile(None)), dir, Tail(names))

\* persist_compare_artifacts.  io.fault = "json" makes the first snapshot
\* write fail.  The result is [res, fs].
persist_compare_artifacts(fs, artifacts_dir, ref_view, impl_view, keep, io) ==
  LET base == [directory |-> artifacts_dir, kept |-> keep,
               ref_screenshot |-> Some(ref_view.screenshot_path),
               impl_screenshot |-> Some(impl_view.screenshot_path),
               diff_image |-> None,
               ref_dom_snapshot |-> None, impl_dom_snapshot |-> None,
               ref_figma_snapshot |-> None, impl_figma_snapshot |-> None]
  IN
  IF ~keep THEN [res |-> Ok(base), fs |-> fs]
  ELSE
    LET heat == generate_diff_heatmap(fs, ref_view.screenshot_path, impl_view.screenshot_path,
                                      Join(artifacts_dir, "diff_heatmap.png"), io)
        names == SnapshotWrites(ref_view, impl_view)
    IN
    IF ~heat.res.ok THEN [res |-> heat.res, fs |-> fs]
    ELSE IF io.fault = "json" /\ names # <<>>
      THEN [res |-> Err(DpcError("Io", <<"Permission", "denied">>)), fs |-> heat.fs]
    ELSE
      [res |-> Ok([base EXCEPT
                     !.diff_image = Some(heat.res.val),
                     !.ref_dom_snapshot =
                        IF IsSome(ref_view.dom)
                          THEN Some(Join(artifacts_dir, "ref_dom.json")) ELSE None,
                     !.impl_dom_snapshot =
                        IF IsSome(impl_view.dom)
                          THEN Some(Join(artifacts_dir, "impl_dom.json")) ELSE None,
                     !.ref_figma_snapshot =
                        IF IsSome(ref_view.figma_tree)
                          THEN Some(Join(artifacts_dir, "ref_figma.json")) ELSE None,
                     !.impl_figma_snapshot =
                        IF IsSome(impl_view.figma_tree)
                          THEN Some(Join(artifacts_dir, "impl_figma.json")) ELSE None]),
       fs  |-> WriteAll(heat.fs, artifacts_dir, names)]

\* std::fs::remove_dir_all: the directory and every file in it disappear.
remove_dir_all(fs, dir) ==
  [files |-> [p \in {q \in DOMAIN fs.files : Parent(q) # dir} |-> fs.files[p]],
   dirs  |-> fs.dirs \ {dir}]

\* Mutant: a failed threshold check is reported with the success code.
exit_code_for_compare_AlwaysSuccess(passed) == 0

\* exit_code_for_compare
exit_code_for_compare(passed) == IF passed THEN 0 ELSE 1

\* render_error: the error envelope and the exit code it returns.
render_error(err) ==
  [envelope  |-> [mode |-> "error", error |-> to_payload(err)],
   exit_code |-> 2]

(***************************************************************************)
(* Quality heuristics, src/commands/quality.rs                             *)
(*                                                                         *)
(* Bounding-box coordinates are integers in thousandths (0.15 is 150, the  *)
(* gap threshold 0.001 is 1, a tolerance of 8 px is 8000).  Scores,        *)
(* cluster centers and ratios are exact fractions [num, den] in lowest     *)
(* terms; Frac(1, 0) stands for a value above every finite one.            *)
(***************************************************************************)

RECURSIVE GCD(_, _)
GCD(a, b) == IF b = 0 THEN a ELSE GCD(b, a % b)

Abs(n) == IF n < 0 THEN -n ELSE n

Reduced(n, d) == Frac(n \div GCD(Abs(n), d), d \div GCD(Abs(n), d))

FracAdd(a, b) == Reduced(a.num * b.den + b.num * a.den, a.den * b.den)

FracSub(a, b) == Reduced(a.num * b.den - b.num * a.den, a.den * b.den)

FracMul(a, b) == Reduced(a.num * b.num, a.den * b.den)

\* f32::min
FracMin(a, b) == IF FracGeq(a, b) THEN b ELSE a

\* Mutant: the value is returned as it is.
clamp_Unbounded(x, lo, hi) == x

\* f32::clamp
clamp(x, lo, hi) ==
  IF ~FracGeq(x, lo) THEN lo ELSE IF ~FracGeq(hi, x) THEN hi ELSE x

BoundingBox(x, y, width, height) == [x |-> x, y |-> y, width |-> width, height |-> height]

Viewport(width, height) == [width |-> width, height |-> height]

\* A DomNode with the bounding box the browser measured.
BoxedNode(id, tag, text, bounding_box) ==
  [id |-> id, tag |-> tag, children |-> <<>>, parent |-> None, attributes |-> <<>>,
   text |-> text, bounding_box |-> bounding_box]

FigmaNode(id, node_type, text, bounding_box) ==
  [id |-> id, name |-> None, node_type |-> node_type, bounding_box |-> bounding_box,
   text |-> text]

QualityFinding(severity, finding_type, message) ==
  [severity |-> severity, finding_type |-> finding_type, message |-> message]

\* node_has_text and figma_has_text
node_has_text(node) == IsSome(node.text) /\ Trim(Unwrap(node.text)) # <<>>

\* is_heading
is_heading(node) ==
  to_ascii_lowercase(node.tag) \in {<<"h", "1">>, <<"h", "2">>, <<"h", "3">>}

CountWhere(nodes, Test(_)) == Len(SelectSeq(nodes, Test))

\* The bounding boxes of the view's DOM nodes, else of its Figma nodes.
ViewBoxes(view) ==
  IF IsSome(view.dom)
    THEN [i \in DOMAIN Unwrap(view.dom).nodes |-> Unwrap(view.dom).nodes[i].bounding_box]
  ELSE IF IsSome(view.figma_tree)
    THEN [i \in DOMAIN Unwrap(view.figma_tree).nodes |->
            Unwrap(view.figma_tree).nodes[i].bounding_box]
  ELSE <<>>

\* (viewport.width as f32 * 0.01).clamp(4.0, 20.0)
MinSpan(viewport) == Max(4000, Min(viewport.width * 10, 20000))

\* (viewport.width as f32 * 0.01).clamp(4.0, 24.0)
Tolerance(viewport) == Max(4000, Min(viewport.width * 10, 24000))

WideX(boxes, min_span) ==
  [i \in DOMAIN SelectSeq(boxes, LAMBDA b : b.width >= min_span) |->
     SelectSeq(boxes, LAMBDA b : b.width >= min_span)[i].x]

\* let mut positions: the x of every box at least min_span wide.
Positions(view, viewport) == WideX(ViewBoxes(view), MinSpan(viewport))

\* Stable insertion of x behind the elements not greater than it.
RECURSIVE InsertPosition(_, _)
InsertPosition(sorted, x) ==
  IF sorted = <<>> THEN <<x>>
  ELSE IF Head(sorted) <= x THEN <<Head(sorted)>> \o InsertPosition(Tail(sorted), x)
  ELSE <<x>> \o sorted

\* Mutant: the positions are clustered in document order.
SortPositions_Unsorted(positions) == positions

\* positions.sort_by(|a, b| a.partial_cmp(b).unwrap_or(Ordering::Equal))
RECURSIVE SortPositions(_)
SortPositions(positions) ==
  IF positions = <<>> THEN <<>>
  ELSE InsertPosition(SortPositions(SubSeq(positions, 1, Len(positions) - 1)),
                      positions[Len(positions)])

\* |x - center|
Distance(x, center) == Frac(Abs(x * center.den - center.num), center.den)

\* The body of the clustering loop: x joins the last cluster, moving its
\* center to the running mean, or starts a new cluster.
AddToClusters(clusters, x, tolerance) ==
  IF clusters # <<>> /\
     FracGeq(Frac(tolerance, 1), Distance(x, clusters[Len(clusters)].center))
    THEN [clusters EXCEPT ![Len(clusters)] =
            [center |-> Reduced(@.center.num * @.count + x * @.center.den,
                                @.center.den * (@.count + 1)),
             count  |-> @.count + 1]]
    ELSE Append(clusters, [center |-> Frac(x, 1), count |-> 1])

\* for x in positions.iter().copied() { ... clusters ... }
RECURSIVE Clusters(_, _)
Clusters(positions, tolerance) ==
  IF positions = <<>> THEN <<>>
  ELSE AddToClusters(Clusters(SubSeq(positions, 1, Len(positions) - 1), tolerance),
                     positions[Len(positions)], tolerance)

Centers(clusters) == [i \in DOMAIN clusters |-> clusters[i].center]

\* centers.iter().fold(f32::MAX, ...): the distance to the nearest center.
RECURSIVE Nearest(_, _)
Nearest(x, centers) ==
  IF centers = <<>> THEN Frac(1, 0)
  ELSE FracMin(Nearest(x, SubSeq(centers, 1, Len(centers) - 1)),
               Distance(x, centers[Len(centers)]))

\* nearest <= tolerance * 1.5
IsAligned(x, centers, tolerance) == FracGeq(Frac(3 * tolerance, 2), Nearest(x, centers))

AlignedCount(positions, centers, tolerance) ==
  Cardinality({i \in DOMAIN positions : IsAligned(positions[i], centers, tolerance)})

\* Mutant: a single outlier is enough for a warning, whatever the score.
AlignmentResult_WarnsOnAnyOutlier(total, aligned, columns, tolerance) ==
  [score   |-> Some(Reduced(aligned, total)),
   finding |-> QualityFinding(
                 IF total - aligned >= 1 THEN "Warning" ELSE "Info",
                 "AlignmentInconsistent",
                 <<total - aligned, "of", total, "elements", "deviate", "from", columns,
                   "column(s)", "tolerance", tolerance \div 1000>>)]

\* The score, severity and message computed from the classified positions.
AlignmentResult(total, aligned, columns, tolerance) ==
  [score   |-> Some(Reduced(aligned, total)),
   finding |-> QualityFinding(
                 IF 4 * aligned < 3 * total /\ total - aligned >= 2 THEN "Warning" ELSE "Info",
                 "AlignmentInconsistent",
                 <<total - aligned, "of", total, "elements", "deviate", "from", columns,
                   "column(s)", "tolerance", tolerance \div 1000>>)]

ClusteredAlignment(positions, tolerance) ==
  AlignmentResult(Len(positions),
                  AlignedCount(positions, Centers(Clusters(positions, tolerance)), tolerance),
                  Len(Clusters(positions, tolerance)), tolerance)

\* alignment_heuristic
alignment_heuristic(view, viewport) ==
  IF Len(Positions(view, viewport)) < 3
    THEN [score   |-> None,
          finding |-> QualityFinding("Info", "AlignmentInconsistent",
                                     <<"Not", "enough", "elements", "to", "assess", "alignment">>)]
    ELSE ClusteredAlignment(SortPositions(Positions(view, viewport)), Tolerance(viewport))

\* Whether box a sorts before box b: by y, then by x.
BoxBefore(a, b) == a.y < b.y \/ (a.y = b.y /\ a.x <= b.x)

RECURSIVE InsertBox(_, _)
InsertBox(sorted, box) ==
  IF sorted = <<>> THEN <<box>>
  ELSE IF BoxBefore(Head(sorted), box) THEN <<Head(sorted)>> \o InsertBox(Tail(sorted), box)
  ELSE <<box>> \o sorted

\* boxes.sort_by(y, then x)
RECURSIVE SortBoxes(_)
SortBoxes(boxes) ==
  IF boxes = <<>> THEN <<>>
  ELSE InsertBox(SortBoxes(SubSeq(boxes, 1, Len(boxes) - 1)), boxes[Len(boxes)])

\* for window in boxes.windows(2): the gaps above 0.001
RECURSIVE WindowGaps(_)
WindowGaps(boxes) ==
  IF Len(boxes) < 2 THEN <<>>
  ELSE IF boxes[2].y - (boxes[1].y + boxes[1].height) > 1
    THEN <<boxes[2].y - (boxes[1].y + boxes[1].height)>> \o WindowGaps(Tail(boxes))
    ELSE WindowGaps(Tail(boxes))

TallBoxes(boxes) == SelectSeq(boxes, LAMBDA b : b.height > 0)

\* collect_vertical_gaps
collect_vertical_gaps(view) ==
  IF Len(TallBoxes(ViewBoxes(view))) < 2 THEN <<>>
  ELSE WindowGaps(SortBoxes(TallBoxes(ViewBoxes(view))))

\* (gap * 100.0).round() as i32
Bucket(gap) == RoundDiv(gap, 10)

Buckets(gaps) == {Bucket(gaps[i]) : i \in DOMAIN gaps}

BucketCount(gaps, bucket) == Cardinality({i \in DOMAIN gaps : Bucket(gaps[i]) = bucket})

\* buckets.values().copied().max()
MaxBucket(gaps) ==
  CHOOSE n \in {BucketCount(gaps, b) : b \in Buckets(gaps)} :
    \A b \in Buckets(gaps) : BucketCount(gaps, b) <= n

MinGap(gaps) == CHOOSE g \in {gaps[i] : i \in DOMAIN gaps} : \A i \in DOMAIN gaps : g <= gaps[i]

MaxGap(gaps) == CHOOSE g \in {gaps[i] : i \in DOMAIN gaps} : \A i \in DOMAIN gaps : g >= gaps[i]

\* (0.05 + outlier_ratio * 0.1).min(0.15), outlier_ratio = 1 - max_bucket / total
SpacingPenalty(total, max_bucket) ==
  FracMin(FracAdd(Frac(5, 100), FracMul(Reduced(total - max_bucket, total), Frac(1, 10))),
          Frac(15, 100))

\* evaluate_spacing
evaluate_spacing(gaps) ==
  IF Len(gaps) < 5 THEN None
  ELSE IF Cardinality(Buckets(gaps)) < 5 THEN None
  ELSE Some([finding |-> QualityFinding("Warning", "SpacingInconsistent",
                           <<Cardinality(Buckets(gaps)), "distinct", "gaps", "across", Len(gaps),
                             "samples", "min", Min(MinGap(gaps), 1000), "max",
                             Min(MaxGap(gaps), 1000)>>),
             penalty |-> SpacingPenalty(Len(gaps), MaxBucket(gaps))])

\* The text bonus (text_nodes / total_nodes * share).min(share)
TextBonus(text_nodes, total_nodes, share) ==
  FracMin(FracMul(Reduced(text_nodes, Max(total_nodes, 1)), share), share)

\* The DOM branch: +0.15, text ratio bonus or warning, heading bonus or warning.
DomStructure(nodes) ==
  [delta |->
     FracAdd(FracAdd(Frac(15, 100),
                     IF CountWhere(nodes, node_has_text) = 0 THEN Frac(-10, 100)
                     ELSE TextBonus(CountWhere(nodes, node_has_text), Len(nodes), Frac(25, 100))),
             IF CountWhere(nodes, is_heading) = 0 THEN Frac(-5, 100) ELSE Frac(5, 100)),
   findings |->
     (IF CountWhere(nodes, node_has_text) = 0
        THEN <<QualityFinding("Warning", "MissingHierarchy",
                              <<"No", "textual", "content", "detected">>)>>
        ELSE <<>>)
     \o (IF CountWhere(nodes, is_heading) = 0
           THEN <<QualityFinding("Warning", "MissingHierarchy",
                                 <<"No", "headings", "detected">>)>>
           ELSE <<>>)]

\* The Figma branch: +0.15 and the text ratio bonus or warning.
FigmaStructure(nodes) ==
  [delta |->
     FracAdd(Frac(15, 100),
             IF CountWhere(nodes, node_has_text) = 0 THEN Frac(-5, 100)
             ELSE TextBonus(CountWhere(nodes, node_has_text), Len(nodes), Frac(20, 100))),
   findings |->
     IF CountWhere(nodes, node_has_text) = 0
       THEN <<QualityFinding("Warning", "MissingHierarchy",
                             <<"Figma", "snapshot", "has", "no", "text", "nodes">>)>>
       ELSE <<>>]

\* if let Some(dom) ... else if let Some(figma) ... else ...
Structure(view) ==
  IF IsSome(view.dom) THEN DomStructure(Unwrap(view.dom).nodes)
  ELSE IF IsSome(view.figma_tree) THEN FigmaStructure(Unwrap(view.figma_tree).nodes)
  ELSE [delta |-> Frac(-10, 100),
        findings |-> <<QualityFinding("Warning", "MissingHierarchy",
                                      <<"No", "DOM", "or", "Figma", "metadata", "available">>)>>]

\* Mutant: the bonus is given whenever OCR ran, even without blocks.
OcrBonus_AnyBlocks(view) == IF IsSome(view.ocr_blocks) THEN Frac(3, 100) ELSE Frac(0, 1)

\* if let Some(blocks) = &view.ocr_blocks { if !blocks.is_empty() { score += 0.03 } }
OcrBonus(view) ==
  IF IsSome(view.ocr_blocks) /\ Unwrap(view.ocr_blocks) # <<>> THEN Frac(3, 100) ELSE Frac(0, 1)

\* score += alignment_score * 0.15
AlignmentDelta(alignment) ==
  IF IsSome(alignment.score) THEN FracMul(Unwrap(alignment.score), Frac(15, 100)) ELSE Frac(0, 1)

\* The spacing step: the finding and its penalty, or +0.02 for two or more gaps.
SpacingDelta(spacing, gaps) ==
  IF IsSome(spacing) THEN FracSub(Frac(0, 1), Unwrap(spacing).penalty)
  ELSE IF Len(gaps) >= 2 THEN Frac(2, 100)
  ELSE Frac(0, 1)

SpacingFindings(spacing) == IF IsSome(spacing) THEN <<Unwrap(spacing).finding>> ELSE <<>>

ContrastFinding ==
  QualityFinding("Info", "LowContrast", <<"Contrast", "heuristic", "not", "implemented", "yet">>)

\* The score before the final clamp.
RawScore(structure, ocr, alignment, spacing, gaps) ==
  FracAdd(FracAdd(FracAdd(FracAdd(Frac(4, 10), structure.delta), ocr), AlignmentDelta(alignment)),
          SpacingDelta(spacing, gaps))

Scored(structure, ocr, alignment, spacing, gaps) ==
  [score    |-> clamp(RawScore(structure, ocr, alignment, spacing, gaps), Frac(0, 1), Frac(1, 1)),
   findings |-> structure.findings \o <<alignment.finding>> \o SpacingFindings(spacing)
                  \o <<ContrastFinding>>]

\* score_quality
score_quality(view, viewport) ==
  Scored(Structure(view), OcrBonus(view), alignment_heuristic(view, viewport),
         evaluate_spacing(collect_vertical_gaps(view)), collect_vertical_gaps(view))

(***************************************************************************)
(* Summary of a comparison, src/main.rs generate_summary                   *)
(*                                                                         *)
(* A summary line is its format string, as word tokens, and the values     *)
(* formatted into it.                                                      *)
(***************************************************************************)

SummaryLine(text, args) == [text |-> text, args |-> args]

\* metric.score < 0.9
BelowNine(metric) == ~FracGeq(metric.score, Frac(9, 10))

LinesIf(cond, line) == IF cond THEN <<line>> ELSE <<>>

\* ((1.0 - pixel.score) * 100.0).round()
DiffPct(score) == RoundDiv((score.den - score.num) * 100, score.den)

IsMajor(severity) == severity = "Major"

\* if let Some(ref pixel) = scores.pixel { ... }
PixelIssues(pixel) ==
  LinesIf(BelowNine(pixel),
          SummaryLine(<<"Pixel", "differences", "detected", "in", "~{}%", "of", "the", "image">>,
                      <<DiffPct(pixel.score)>>))
  \o LinesIf(pixel.diff_regions # <<>> /\ CountWhere(pixel.diff_regions, IsMajor) > 0,
             SummaryLine(<<"{}", "major", "visual", "difference", "region(s)", "found">>,
                         <<CountWhere(pixel.diff_regions, IsMajor)>>))

KindCount(regions, kind) == CountWhere(regions, LAMBDA k : k = kind)

\* if let Some(ref layout) = scores.layout { ... }
LayoutIssues(layout) ==
  IF ~BelowNine(layout) THEN <<>>
  ELSE LinesIf(KindCount(layout.diff_regions, "MissingElement") > 0,
               SummaryLine(<<"{}", "element(s)", "missing", "from", "implementation">>,
                           <<KindCount(layout.diff_regions, "MissingElement")>>))
       \o LinesIf(KindCount(layout.diff_regions, "ExtraElement") > 0,
                  SummaryLine(<<"{}", "extra", "element(s)", "in", "implementation">>,
                              <<KindCount(layout.diff_regions, "ExtraElement")>>))
       \o LinesIf(KindCount(layout.diff_regions, "PositionShift") > 0,
                  SummaryLine(<<"{}", "element(s)", "shifted", "from", "expected", "position">>,
                              <<KindCount(layout.diff_regions, "PositionShift")>>))

\* The diffs whose issues hold the given one.
IssueCount(diffs, issue) == CountWhere(diffs, LAMBDA d : issue \in d)

\* if let Some(ref typo) = scores.typography { ... }
TypographyIssues(typo) ==
  IF ~(BelowNine(typo) /\ typo.diffs # <<>>) THEN <<>>
  ELSE LinesIf(IssueCount(typo.diffs, "FontFamilyMismatch") > 0,
               SummaryLine(<<"{}", "element(s)", "have", "mismatched", "font", "families">>,
                           <<IssueCount(typo.diffs, "FontFamilyMismatch")>>))
       \o LinesIf(IssueCount(typo.diffs, "FontSizeDiff") > 0,
                  SummaryLine(<<"{}", "element(s)", "have", "incorrect", "font", "sizes">>,
                              <<IssueCount(typo.diffs, "FontSizeDiff")>>))

\* if let Some(ref color) = scores.color { ... }
ColorIssues(color) ==
  LinesIf(BelowNine(color) /\ color.diffs # <<>>,
          SummaryLine(<<"{}", "color", "difference(s)", "detected", "in", "palette">>,
                      <<Len(color.diffs)>>))

\* if let Some(ref content) = scores.content { ... }
ContentIssues(content) ==
  IF ~BelowNine(content) THEN <<>>
  ELSE LinesIf(content.missing_text # <<>>,
               SummaryLine(<<"{}", "text", "element(s)", "missing", "from", "implementation">>,
                           <<Len(content.missing_text)>>))
       \o LinesIf(content.extra_text # <<>>,
                  SummaryLine(<<"{}", "extra", "text", "element(s)", "in", "implementation">>,
                              <<Len(content.extra_text)>>))

\* The lines of one metric slot, none when the metric did not run.
SlotIssues(slot, Issues(_)) == IF IsSome(slot) THEN Issues(Unwrap(slot)) ELSE <<>>

\* top_issues.insert(0, format!("Design parity check {passed|failed} (...)"))
OverallLine(similarity, threshold) ==
  SummaryLine(<<"Design", "parity", "check",
                IF FracGeq(similarity, threshold) THEN "passed" ELSE "failed",
                "({:.1}%", "similarity,", "threshold:", "{:.1}%)">>,
              <<similarity, threshold>>)

\* generate_summary
generate_summary(metric_scores, similarity, threshold) ==
  [top_issues |->
     <<OverallLine(similarity, threshold)>>
       \o SlotIssues(metric_scores.pixel, PixelIssues)
       \o SlotIssues(metric_scores.layout, LayoutIssues)
       \o SlotIssues(metric_scores.typography, TypographyIssues)
       \o SlotIssues(metric_scores.color, ColorIssues)
       \o SlotIssues(metric_scores.content, ContentIssues)]

(***************************************************************************)
(* The compare command, src/main.rs run()                                  *)
(***************************************************************************)

VARIABLES
  pc,         \* the position of the run in run()
  cli,        \* the parsed command line
  env,        \* the process environment
  fs,         \* the file system
  run,        \* the local variables of run()
  ingest,     \* the last call of resource_to_normalized_view: its prefix, resource,
              \* the calls it made, the image path it loaded and the view returned
  failed_at,  \* the step whose error ended the run
  out,        \* the envelope written to the output
  exit_code,  \* the process exit code
  calls,      \* the steps of run() executed so far, in order
  scores, weights, combined,   \* one call of calculate_combined_score
  shot_view, shot_regions, shot_fs, masked, \* one call of apply_ignore_regions
  dom_view, dom_selectors, filtered, refiltered,  \* apply_dom_ignores, applied once and again
  raw_selectors, parsed_selectors,  \* one call of parse_ignore_selectors
  quality_view, quality_viewport, quality,  \* one call of score_quality
  sum_scores, sum_similarity, sum_threshold, summary,  \* one call of generate_summary
  load_path, load_options, load_io, load_fs, load_result, load_view, load_stage,  \* image_to_normalized_view, then the filter and the mask
  given_args, given_cli, given_config, resolved_settings,  \* resolve_compare_settings on given arguments
  lb_source, lb_target, lb_canvas  \* one call of resize_with_letterbox

runVars == <<pc, cli, env, fs, run, ingest, failed_at, out, exit_code, calls>>

scoreVars == <<scores, weights, combined>>

maskVars == <<shot_view, shot_regions, shot_fs, masked>>

domVars == <<dom_view, dom_selectors, filtered, refiltered>>

parseVars == <<raw_selectors, parsed_selectors>>

qualityVars == <<quality_view, quality_viewport, quality>>

summaryVars == <<sum_scores, sum_similarity, sum_threshold, summary>>

loadVars == <<load_path, load_options, load_io, load_fs, load_result, load_view, load_stage>>

settingsVars == <<given_args, given_cli, given_config, resolved_settings>>

letterboxVars == <<lb_source, lb_target, lb_canvas>>

vars == <<runVars, scoreVars, maskVars, domVars, parseVars, qualityVars, summaryVars, loadVars, settingsVars, letterboxVars>>

nonRunVars == <<scoreVars, maskVars, domVars, parseVars, qualityVars, summaryVars, loadVars, settingsVars, letterboxVars>>

nonScoreVars == <<runVars, maskVars, domVars, parseVars, qualityVars, summaryVars, loadVars, settingsVars, letterboxVars>>

nonMaskVars == <<runVars, scoreVars, domVars, parseVars, qualityVars, summaryVars, loadVars, settingsVars, letterboxVars>>

nonDomVars == <<runVars, scoreVars, maskVars, parseVars, qualityVars, summaryVars, loadVars, settingsVars, letterboxVars>>

nonParseVars == <<runVars, scoreVars, maskVars, domVars, qualityVars, summaryVars, loadVars, settingsVars, letterboxVars>>

nonQualityVars == <<runVars, scoreVars, maskVars, domVars, parseVars, summaryVars, loadVars, settingsVars, letterboxVars>>

nonSummaryVars == <<runVars, scoreVars, maskVars, domVars, parseVars, qualityVars, loadVars, settingsVars, letterboxVars>>

nonLoadVars == <<runVars, scoreVars, maskVars, domVars, parseVars, qualityVars, summaryVars, settingsVars, letterboxVars>>

nonSettingsVars == <<runVars, scoreVars, maskVars, domVars, parseVars, qualityVars, summaryVars, loadVars, letterboxVars>>

nonLetterboxVars == <<runVars, scoreVars, maskVars, domVars, parseVars, qualityVars, summaryVars, loadVars, settingsVars>>

UnsetEnv == [v \in EnvVars |-> None]

SetVar(e, key, value) == [e EXCEPT ![key] = Some(value)]

\* The environments a run is started in.
RunEnvs ==
  { UnsetEnv,
    SetVar(UnsetEnv, "FIGMA_TOKEN", "secret"),
    SetVar(UnsetEnv, "FIGMA_OAUTH_TOKEN", "secret"),
    SetVar(SetVar(UnsetEnv, "DPC_MOCK_RENDER_REF", "mock.png"), "DPC_MOCK_RENDER_IMPL", "mock.png"),
    SetVar(SetVar(UnsetEnv, "DPC_MOCK_RENDER_REF", " "), "DPC_MOCK_RENDER_IMPL", ""),
    SetVar(SetVar(UnsetEnv, "MOCK_RENDER_REF", "mock.png"), "MOCK_RENDER_IMPL", "mock.png"),
    SetVar(UnsetEnv, "DPC_MOCK_RENDERERS_DIR", "mocks"),
    SetVar(SetVar(UnsetEnv, "MOCK_RENDERERS_DIR", "mocks"), "FIGMA_TOKEN", "secret"),
    SetVar(SetVar(UnsetEnv, "DPC_MOCK_RENDER_REF", " "), "DPC_MOCK_RENDERERS_DIR", "mocks"),
    SetVar(UnsetEnv, "DPC_MOCK_RENDER_REF", "nomock.png") }

\* The files present when a run starts.
InitialFs ==
  [files |-> (<<".", "good.png">> :> Raster(4, 2))
               @@ (<<".", "corrupt.png">> :> DataFile(None))
               @@ (<<".", "mock.png">> :> Raster(2, 2))
               @@ (<<"mocks", "ref.png">> :> Raster(2, 2))
               @@ (<<".", "invalid.json">> :> DataFile(None))
               @@ (<<".", "empty.json">> :> DataFile(Some(<<>>)))
               @@ (<<".", "regions.json">> :>
                     DataFile(Some(<<IgnoreRegion(0, 0, 1, RegionDen)>>))),
   dirs  |-> {".", "mocks"}]

\* The resources parse_resource yields for the --ref / --impl values tried.
Resources ==
  { ParsedResource("Image", "good.png", None),
    ParsedResource("Image", "missing.png", None),
    ParsedResource("Image", "corrupt.png", None),
    ParsedResource("Url", "https://example.com", None),
    ParsedResource("Figma", "https://www.figma.com/file/FILE123/Mock?node-id=1-2",
                   Some(FigmaInfo("FILE123", Some("1-2")))),
    ParsedResource("Figma", "https://www.figma.com/file/FILE123/MockWithoutNode",
                   Some(FigmaInfo("FILE123", None))),
    ParsedResource("Figma", "https://example.com/design", None) }

\* Default values of the command-line options and of the configuration.
CliValues ==
  [viewport |-> [width |-> 4, height |-> 2], threshold |-> Frac(1, 1),
   nav_timeout |-> 30, network_idle_timeout |-> 10, process_timeout |-> 45]

DefaultConfig ==
  [viewport |-> [width |-> 2, height |-> 2], threshold |-> Frac(19, 20),
   timeouts |-> [navigation |-> 20, network_idle |-> 5, process |-> 40],
   metric_weights |-> DefaultWeights]

\* The raw argument lists tried (only the options that decide a setting).
RunRawArgs ==
  { <<>>,
    <<Arg("--threshold", "bare"), Arg("1.0", "value")>>,
    <<Arg("--viewport", "eq"), Arg("--threshold", "eq"), Arg("--nav-timeout", "bare"),
      Arg("30", "value")>> }

NoFault == [fault |-> "none", ocr |-> "not_available"]

Fault(f) == [fault |-> f, ocr |-> "not_available"]

EmptyRun ==
  [settings |-> None, ref_res |-> None, impl_res |-> None,
   selected_metrics |-> <<>>, ignore_selectors |-> <<>>,
   ignore_regions_path |-> None, ignore_regions |-> <<>>,
   artifacts_dir |-> None, should_keep_artifacts |-> FALSE,
   ref_view |-> None, impl_view |-> None,
   effective_metrics |-> <<>>, metrics_scores |-> None,
   similarity |-> None, passed |-> None, artifacts |-> None]

InitRun ==
  /\ pc = "start"
  /\ cli \in [command : {"compare"}, keep_artifacts : BOOLEAN,
              artifacts_dir : {None, Some("out")}]
  /\ env \in RunEnvs
  /\ fs = InitialFs
  /\ run = EmptyRun
  /\ ingest = None
  /\ failed_at = None
  /\ out = None
  /\ exit_code = None
  /\ calls = <<>>

RunIdle ==
  /\ pc = "idle"
  /\ cli = [command |-> "none", keep_artifacts |-> FALSE, artifacts_dir |-> None]
  /\ env = UnsetEnv
  /\ fs = [files |-> <<>>, dirs |-> {}]
  /\ run = EmptyRun
  /\ ingest = None
  /\ failed_at = None
  /\ out = None
  /\ exit_code = None
  /\ calls = <<>>

\* Mutant: the error is rendered and the run goes on with the failed step.
Exit_GoesOn(err, step) ==
  /\ out' = Some(render_error(err).envelope)
  /\ exit_code' = Some(render_error(err).exit_code)
  /\ failed_at' = Some(step)
  /\ pc' = pc

\* `return render_error(err, format, output.clone())` at step `step`.
Exit(err, step) ==
  /\ out' = Some(render_error(err).envelope)
  /\ exit_code' = Some(render_error(err).exit_code)
  /\ failed_at' = Some(step)
  /\ pc' = "exited"

Continue(next) ==
  /\ pc' = next
  /\ UNCHANGED <<out, exit_code, failed_at>>

Step(name) == calls' = Append(calls, name)

\* load_config, CompareFlagSources::from_args and resolve_compare_settings.
LoadConfig ==
  /\ pc = "start"
  /\ Step("load_config")
  /\ \E config \in {Ok(DefaultConfig),
                    Err(ConfigError(<<"Invalid", "config:", "viewport">>))},
        raw_args \in RunRawArgs :
       IF config.ok
         THEN /\ run' = [run EXCEPT !.settings =
                           Some(resolve_compare_settings(
                                  CliValues.viewport, CliValues.threshold,
                                  CliValues.nav_timeout, CliValues.network_idle_timeout,
                                  CliValues.process_timeout, config.val,
                                  CompareFlagSources_from_args(raw_args)))]
              /\ Continue("parse_ref")
         ELSE /\ Exit(config.val, "load_config")
              /\ UNCHANGED run
  /\ UNCHANGED <<cli, env, fs, ingest>>
  /\ UNCHANGED nonRunVars

\* parse_resource(&ref, ...)
ParseRef ==
  /\ pc = "parse_ref"
  /\ Step("parse_ref")
  /\ \E parsed \in {Ok(r) : r \in Resources} \cup {Err(<<"unsupported", "resource">>)} :
       IF parsed.ok
         THEN /\ run' = [run EXCEPT !.ref_res = Some(parsed.val)]
              /\ Continue("parse_impl")
         ELSE /\ Exit(ConfigError(parsed.val), "parse_ref")
              /\ UNCHANGED run
  /\ UNCHANGED <<cli, env, fs, ingest>>
  /\ UNCHANGED nonRunVars

\* parse_resource(&impl, ...)
ParseImpl ==
  /\ pc = "parse_impl"
  /\ Step("parse_impl")
  /\ \E parsed \in {Ok(r) : r \in Resources} \cup {Err(<<"unsupported", "resource">>)} :
       IF parsed.ok
         THEN /\ run' = [run EXCEPT !.impl_res = Some(parsed.val)]
              /\ Continue("parse_metrics")
         ELSE /\ Exit(ConfigError(parsed.val), "parse_impl")
              /\ UNCHANGED run
  /\ UNCHANGED <<cli, env, fs, ingest>>
  /\ UNCHANGED nonRunVars

\* parse_metric_kinds and parse_ignore_selectors
ParseMetricKinds ==
  /\ pc = "parse_metrics"
  /\ Step("parse_metrics")
  /\ \E metrics \in {None, Some(<<"layout", "pixel">>), Some(<<"pixel", "bogus">>)},
        ignore_selectors \in {None, Some(<<" ", "P", ",", " ">>)} :
       LET parsed == parse_metric_kinds(metrics) IN
       IF parsed.ok
         THEN /\ run' = [run EXCEPT !.selected_metrics = parsed.val,
                                    !.ignore_selectors = parse_ignore_selectors(ignore_selectors)]
              /\ Continue("ignore_regions")
         ELSE /\ Exit(ConfigError(parsed.val), "parse_metrics")
              /\ UNCHANGED run
  /\ UNCHANGED <<cli, env, fs, ingest>>
  /\ UNCHANGED nonRunVars

\* The --ignore-regions values tried.
IgnoreRegionsArgs ==
  {None, Some("nofile.json"), Some("invalid.json"), Some("empty.json"), Some("regions.json")}

\* match ignore_regions { Some(path) => load_ignore_regions(&path), None => Vec::new() }
LoadIgnoreRegions ==
  /\ pc = "ignore_regions"
  /\ Step("ignore_regions")
  /\ \E ignore_regions \in IgnoreRegionsArgs :
       LET loaded == IF IsSome(ignore_regions)
                       THEN load_ignore_regions(fs, PathOf(Unwrap(ignore_regions)))
                       ELSE Ok(<<>>)
       IN
       IF loaded.ok
         THEN /\ run' = [run EXCEPT !.ignore_regions_path = ignore_regions,
                                    !.ignore_regions = loaded.val]
              /\ Continue("create_dir")
         ELSE /\ Exit(loaded.val, "ignore_regions")
              /\ run' = [run EXCEPT !.ignore_regions_path = ignore_regions]
  /\ UNCHANGED <<cli, env, fs, ingest>>
  /\ UNCHANGED nonRunVars

\* resolve_artifacts_dir and std::fs::create_dir_all
CreateArtifactsDir ==
  /\ pc = "create_dir"
  /\ Step("create_dir")
  /\ LET resolved == resolve_artifacts_dir(cli.artifacts_dir) IN
     \E created \in BOOLEAN :
       IF created
         THEN /\ fs' = [fs EXCEPT !.dirs = fs.dirs \cup {resolved[1]}]
              /\ run' = [run EXCEPT !.artifacts_dir = Some(resolved[1]),
                                    !.should_keep_artifacts =
                                       cli.keep_artifacts \/ resolved[2]]
              /\ Continue("normalize_ref")
         ELSE /\ Exit(DpcError("Io", <<"Permission", "denied">>), "create_dir")
              /\ UNCHANGED <<fs, run>>
  /\ UNCHANGED <<cli, env, ingest>>
  /\ UNCHANGED nonRunVars

IngestFaults == {NoFault, Fault("save"), Fault("backend"), Fault("client")}

\* The call of resource_to_normalized_view for one side.
Normalize(prefix, resource, label, step, next) ==
  /\ Step(step)
  /\ \E io \in IngestFaults :
       LET r == resource_to_normalized_view(resource, Unwrap(run.settings).viewport,
                                            Unwrap(run.artifacts_dir), prefix, env, fs, io)
       IN
       /\ fs' = r.fs
       /\ ingest' = Some([prefix |-> prefix, resource |-> resource, trace |-> r.trace,
                          image_path |-> r.image_path,
                          view |-> IF r.res.ok THEN Some(r.res.val) ELSE None])
       /\ IF r.res.ok
            THEN /\ run' = IF prefix = "ref"
                             THEN [run EXCEPT !.ref_view = Some(r.res.val)]
                             ELSE [run EXCEPT !.impl_view = Some(r.res.val)]
                 /\ Continue(next)
            ELSE /\ Exit(ConfigError(label \o r.res.val), step)
                 /\ UNCHANGED run
  /\ UNCHANGED <<cli, env>>

NormalizeRef ==
  /\ pc = "normalize_ref"
  /\ Normalize("ref", Unwrap(run.ref_res), <<"Failed", "to", "process", "reference:">>,
               "normalize_ref", "normalize_impl")
  /\ UNCHANGED nonRunVars

NormalizeImpl ==
  /\ pc = "normalize_impl"
  /\ Normalize("impl", Unwrap(run.impl_res), <<"Failed", "to", "process", "implementation:">>,
               "normalize_impl", "dom_ignores")
  /\ UNCHANGED nonRunVars

\* apply_dom_ignores on both views.
ApplyDomIgnores ==
  /\ pc = "dom_ignores"
  /\ Step("dom_ignores")
  /\ run' = [run EXCEPT
               !.ref_view = Some(apply_dom_ignores(Unwrap(run.ref_view), run.ignore_selectors)),
               !.impl_view = Some(apply_dom_ignores(Unwrap(run.impl_view), run.ignore_selectors))]
  /\ Continue("mask_ref")
  /\ UNCHANGED <<cli, env, fs, ingest>>
  /\ UNCHANGED nonRunVars

\* if ignore_regions.is_empty() { view } else { apply_ignore_regions(...)? }
Mask(prefix, view, step, next) ==
  /\ Step(step)
  /\ \E io \in {NoFault, Fault("save")} :
       LET r == apply_ignore_regions(fs, view, run.ignore_regions,
                                     Unwrap(run.artifacts_dir), prefix, io)
       IN
       /\ fs' = r.fs
       /\ IF r.res.ok
            THEN /\ run' = IF prefix = "ref"
                             THEN [run EXCEPT !.ref_view = Some(r.res.val)]
                             ELSE [run EXCEPT !.impl_view = Some(r.res.val)]
                 /\ Continue(next)
            ELSE /\ Exit(r.res.val, step)
                 /\ UNCHANGED run
  /\ UNCHANGED <<cli, env, ingest>>

MaskRef ==
  /\ pc = "mask_ref"
  /\ Mask("ref", Unwrap(run.ref_view), "mask_ref", "mask_impl")
  /\ UNCHANGED nonRunVars

MaskImpl ==
  /\ pc = "mask_impl"
  /\ Mask("impl", Unwrap(run.impl_view), "mask_impl", "metrics")
  /\ UNCHANGED nonRunVars

\* effective_metrics, run_metrics, calculate_combined_score and
\* `passed = similarity >= threshold as f32`.
RunMetrics ==
  /\ pc = "metrics"
  /\ Step("metrics")
  /\ LET ref_view  == Unwrap(run.ref_view)
         impl_view == Unwrap(run.impl_view)
         effective == effective_metrics(run.selected_metrics, ref_view, impl_view)
     IN
     \E result \in run_metrics_results(effective, ref_view, impl_view) :
       IF result.ok
         THEN LET similarity == calculate_combined_score(result.val,
                                                         Unwrap(run.settings).weights)
              IN
              /\ run' = [run EXCEPT
                           !.effective_metrics = effective,
                           !.metrics_scores = Some(result.val),
                           !.similarity = Some(similarity),
                           !.passed = Some(FracGeq(similarity, Unwrap(run.settings).threshold))]
              /\ Continue("artifacts")
         ELSE /\ Exit(ConfigError(<<"Failed", "to", "compute", "metrics:">> \o result.val),
                      "metrics")
              /\ run' = [run EXCEPT !.effective_metrics = effective]
  /\ UNCHANGED <<cli, env, fs, ingest>>
  /\ UNCHANGED nonRunVars

\* if should_keep_artifacts { persist_compare_artifacts(...)? } else { None }
PersistArtifacts ==
  /\ pc = "artifacts"
  /\ Step("artifacts")
  /\ IF run.should_keep_artifacts
       THEN \E io \in {NoFault, Fault("heatmap"), Fault("json")} :
              LET r == persist_compare_artifacts(fs, Unwrap(run.artifacts_dir),
                                                 Unwrap(run.ref_view), Unwrap(run.impl_view),
                                                 run.should_keep_artifacts, io)
              IN
              /\ fs' = r.fs
              /\ IF r.res.ok
                   THEN /\ run' = [run EXCEPT !.artifacts = Some(r.res.val)]
                        /\ Continue("output")
                   ELSE /\ Exit(r.res.val, "artifacts")
                        /\ UNCHANGED run
       ELSE /\ Continue("output")
            /\ UNCHANGED <<fs, run>>
  /\ UNCHANGED <<cli, env, ingest>>
  /\ UNCHANGED nonRunVars

\* The CompareOutput body.
CompareBody ==
  [mode |-> "compare",
   ref_resource |-> [kind |-> Unwrap(run.ref_res).kind, value |-> Unwrap(run.ref_res).value],
   impl_resource |-> [kind |-> Unwrap(run.impl_res).kind, value |-> Unwrap(run.impl_res).value],
   viewport |-> Unwrap(run.settings).viewport,
   similarity |-> Unwrap(run.similarity),
   threshold |-> Unwrap(run.settings).threshold,
   passed |-> Unwrap(run.passed),
   metrics |-> Unwrap(run.metrics_scores),
   artifacts |-> run.artifacts]

\* write_output, the clean-up of the artifacts directory and exit_code_for_compare.
WriteOutput ==
  /\ pc = "output"
  /\ Step("output")
  /\ \E written \in BOOLEAN :
       IF written
         THEN /\ out' = Some(CompareBody)
              /\ fs' = IF ~run.should_keep_artifacts
                         THEN remove_dir_all(fs, Unwrap(run.artifacts_dir))
                         ELSE fs
              /\ exit_code' = Some(exit_code_for_compare(Unwrap(run.passed)))
              /\ pc' = "exited"
              /\ UNCHANGED failed_at
         ELSE /\ Exit(ConfigError(<<"Permission", "denied">>), "output")
              /\ UNCHANGED fs
  /\ UNCHANGED <<cli, env, run, ingest>>
  /\ UNCHANGED nonRunVars

ScoreInputs ==
  /\ scores \in MetricScoresSpace
  /\ weights \in ScoreWeightsSpace
  /\ combined = None

ScoreIdle ==
  /\ scores = [k \in Slots |-> None]
  /\ weights = [k \in Slots |-> 0]
  /\ combined = None

\* A call of calculate_combined_score(&scores, &weights).
Combine ==
  /\ combined = None
  /\ combined' = Some(calculate_combined_score(scores, weights))
  /\ UNCHANGED <<scores, weights, nonScoreVars>>

(***************************************************************************)
(* One call of apply_ignore_regions on a stored screenshot                 *)
(***************************************************************************)

MaskWidth == 4

MaskHeight == 2

MaxRegionCoord == 4

\* Regions with coordinates on the grid k / RegionDen.
RegionSpace ==
  {IgnoreRegion(x, y, w, h) : x \in -1 .. MaxRegionCoord, y \in -1 .. MaxRegionCoord,
                              w \in 0 .. MaxRegionCoord, h \in 0 .. MaxRegionCoord}

RegionLists ==
  {<<>>} \cup {<<r>> : r \in RegionSpace}
         \cup {<<IgnoreRegion(0, 0, 1, 1), r>> :
                 r \in {q \in RegionSpace : q.x = q.y /\ q.width = q.height}}

\* The stored screenshot: pixels of two colours, "S" and "U", none transparent.
MaskShot ==
  ImageFile(MaskWidth, MaskHeight,
            [p \in Pixels(MaskWidth, MaskHeight) |->
               IF (p[1] + p[2]) % 2 = 0 THEN "S" ELSE "U"])

MaskFs ==
  [files |-> (<<"art", "ref_screenshot.png">> :> MaskShot),
   dirs  |-> {"art"}]

\* The views masked: an image view, one whose screenshot is gone, a page
\* view with DOM and OCR blocks, and a Figma view with its tree.
MaskViews ==
  { NormalizedView("Image", <<"art", "ref_screenshot.png">>, MaskWidth, MaskHeight,
                   None, None, None),
    NormalizedView("Image", <<"art", "gone.png">>, MaskWidth, MaskHeight, None, None, None),
    NormalizedView("Url", <<"art", "ref_screenshot.png">>, MaskWidth, MaskHeight,
                   Some(RenderedDom), None, Some(<<"block">>)),
    NormalizedView("Figma", <<"art", "ref_screenshot.png">>, MaskWidth, MaskHeight,
                   None, Some(RenderedFigmaTree("FILE123", "1-2")), None) }

MaskInputs ==
  /\ shot_view \in MaskViews
  /\ shot_regions \in RegionLists
  /\ shot_fs = MaskFs
  /\ masked = None

MaskIdle ==
  /\ shot_view = None
  /\ shot_regions = <<>>
  /\ shot_fs = [files |-> <<>>, dirs |-> {}]
  /\ masked = None

\* A call of apply_ignore_regions(&view, &regions, artifacts_dir, "ref").
ApplyIgnoreRegions ==
  /\ masked = None
  /\ \E io \in {NoFault, Fault("save")} :
       LET r == apply_ignore_regions(shot_fs, shot_view, shot_regions, "art", "ref", io) IN
       /\ masked' = Some(r.res)
       /\ shot_fs' = r.fs
  /\ UNCHANGED <<shot_view, shot_regions, nonMaskVars>>

(***************************************************************************)
(* apply_dom_ignores on a view, applied once and then again                *)
(***************************************************************************)

MaxNodes == 3

MaxSelectors == 2

\* A node with parent and children ids, as the browser snapshot links them.
LinkedNode(id, tag, attributes, parent, children) ==
  [DomNode(id, tag, attributes) EXCEPT !.parent = parent, !.children = children]

\* The nodes tried: ids, tags and attributes in mixed case, a class list of
\* two tokens, an id attribute that differs from the node's own id, and
\* parent / children ids that point at other nodes of the pool.
NodePool ==
  { LinkedNode(<<"h">>, <<"d", "i", "v">>, [class |-> <<"B", "n">>], None, <<<<"a", "1">>, <<"p">>>>),
    LinkedNode(<<"a", "1">>, <<"D", "I", "V">>, [class |-> <<"a", "d", " ", "b", "n">>],
               Some(<<"h">>), <<>>),
    LinkedNode(<<"p">>, <<"p">>, <<>>, Some(<<"h">>), <<>>),
    LinkedNode(<<"x">>, <<"P">>, [id |-> <<"H">>], Some(<<"a", "1">>), <<>>) }

SelectorPool ==
  { <<"#", "h">>, <<"#", "A", "1">>, <<".", "b", "n">>, <<".", "a", "d">>, <<"p">>,
    <<"d", "i", "v">>, <<"#">>, <<".">> }

SeqsUpTo(S, n) == UNION {[1 .. k -> S] : k \in 0 .. n}

DomViews ==
  {NormalizedView("Url", <<"art", "ref_screenshot.png">>, 4, 2,
                  Some([url |-> None, title |-> None, nodes |-> nodes]), None,
                  Some(<<"block">>)) : nodes \in SeqsUpTo(NodePool, MaxNodes)}
    \cup {NormalizedView("Image", <<"art", "ref_screenshot.png">>, 4, 2, None, None, None)}

DomInputs ==
  /\ dom_view \in DomViews
  /\ dom_selectors \in SeqsUpTo(SelectorPool, MaxSelectors)
  /\ filtered = None
  /\ refiltered = None

DomIdle ==
  /\ dom_view = None
  /\ dom_selectors = <<>>
  /\ filtered = None
  /\ refiltered = None

\* let view = apply_dom_ignores(&view_raw, &ignore_selectors)
FilterDom ==
  /\ filtered = None
  /\ filtered' = Some(apply_dom_ignores(dom_view, dom_selectors))
  /\ UNCHANGED <<dom_view, dom_selectors, refiltered, nonDomVars>>

\* apply_dom_ignores applied to its own result, same selectors.
FilterDomAgain ==
  /\ IsSome(filtered) /\ refiltered = None
  /\ refiltered' = Some(apply_dom_ignores(Unwrap(filtered), dom_selectors))
  /\ UNCHANGED <<dom_view, dom_selectors, filtered, nonDomVars>>

(***************************************************************************)
(* One call of parse_ignore_selectors                                      *)
(***************************************************************************)

MaxRawLen == 5

RawChars == {" ", ",", "#", "A", "b"}

ParseInputs ==
  /\ raw_selectors \in {None} \cup {Some(str) : str \in SeqsUpTo(RawChars, MaxRawLen)}
  /\ parsed_selectors = None

ParseIdle ==
  /\ raw_selectors = None
  /\ parsed_selectors = None

\* parse_ignore_selectors(ignore_selectors.as_deref())
ParseIgnoreSelectors ==
  /\ parsed_selectors = None
  /\ parsed_selectors' = Some(parse_ignore_selectors(raw_selectors))
  /\ UNCHANGED <<raw_selectors, nonParseVars>>

(***************************************************************************)
(* One call of score_quality                                               *)
(***************************************************************************)

MaxBoxes == 4

\* The nodes tried: wide boxes stacked 0.05 apart whose x positions chain
\* within the 8 px tolerance, with text, blank text or none, headings or
\* not, and a narrow box without height.
QualityNodes ==
  { BoxedNode(<<"a">>, <<"H", "1">>, Some(<<"H", "i">>), BoundingBox(0, 0, 20000, 100)),
    BoxedNode(<<"b">>, <<"d", "i", "v">>, Some(<<"H", "i">>), BoundingBox(8000, 150, 20000, 100)),
    BoxedNode(<<"c">>, <<"p">>, Some(<<"G", "o">>), BoundingBox(12000, 300, 20000, 100)),
    BoxedNode(<<"d">>, <<"h", "2">>, Some(<<" ">>), BoundingBox(14000, 450, 20000, 100)),
    BoxedNode(<<"e">>, <<"p">>, None, BoundingBox(0, 0, 200, 0)) }

\* view_with_boxes: div nodes without text, one per box.
BoxNodes(boxes) ==
  [i \in DOMAIN boxes |-> BoxedNode(<<"n">>, <<"d", "i", "v">>, None, boxes[i])]

\* Boxes of width 0.2 and height 0.1 at the given (x, y).
UnitBoxes(xy) == [i \in DOMAIN xy |-> BoundingBox(xy[i][1], xy[i][2], 200, 100)]

\* The box lists of the spacing tests and one with five distinct gaps.
SpacingLists ==
  { UnitBoxes(<<<<0, 0>>, <<100, 150>>, <<200, 320>>, <<50, 500>>, <<50, 680>>, <<50, 870>>>>),
    UnitBoxes(<<<<0, 0>>, <<50, 150>>, <<100, 300>>, <<100, 450>>>>),
    UnitBoxes(<<<<0, 0>>, <<100, 150>>, <<200, 320>>, <<50, 500>>, <<50, 690>>, <<50, 890>>>>) }

\* Wide boxes in one row at the given x positions (in px).
RowBoxes(xs) == [i \in DOMAIN xs |-> BoundingBox(xs[i] * 1000, 0, 20000, 100)]

\* A row whose x positions each join the running mean of the ones before
\* under a 24 px tolerance, given in document order.
AlignmentLists == { RowBoxes(<<44, 0, 58, 24, 36, 54, 50>>) }

\* A document holds each node once: the lists of distinct nodes.
DistinctNodeLists ==
  {nodes \in SeqsUpTo(QualityNodes, MaxBoxes) :
     \A i, j \in DOMAIN nodes : i # j => nodes[i] # nodes[j]}

QualityNodeLists ==
  DistinctNodeLists
    \cup {BoxNodes(boxes) : boxes \in SpacingLists \cup AlignmentLists}

AsFigmaNodes(nodes) ==
  [i \in DOMAIN nodes |->
     FigmaNode(nodes[i].id, <<"F", "R", "A", "M", "E">>, nodes[i].text, nodes[i].bounding_box)]

OcrValues == {None, Some(<<>>), Some(<<"block">>)}

QualityViews ==
  {NormalizedView("Url", <<"art", "input_screenshot.png">>, 100, 100,
                  Some([url |-> None, title |-> None, nodes |-> nodes]), None, ocr) :
     nodes \in QualityNodeLists, ocr \in OcrValues}
    \cup
  {NormalizedView("Figma", <<"art", "input_figma.png">>, 100, 100, None,
                  Some([RenderedFigmaTree("FILE123", "1-2") EXCEPT !.nodes = AsFigmaNodes(nodes)]),
                  ocr) :
     nodes \in QualityNodeLists, ocr \in OcrValues}
    \cup
  {NormalizedView("Image", <<"art", "input_screenshot.png">>, 100, 100, None, None, ocr) :
     ocr \in OcrValues}

\* Viewports whose tolerance is the lower clamp, the 1% value and the upper clamp.
QualityViewports == {Viewport(100, 100), Viewport(800, 600), Viewport(2400, 1200)}

QualityInputs ==
  /\ quality_view \in QualityViews
  /\ quality_viewport \in QualityViewports
  /\ quality = None

QualityIdle ==
  /\ quality_view = None
  /\ quality_viewport = None
  /\ quality = None

\* let (score, findings) = score_quality(&view, &viewport)
ScoreQuality ==
  /\ quality = None
  /\ quality' = Some(score_quality(quality_view, quality_viewport))
  /\ UNCHANGED <<quality_view, quality_viewport, nonQualityVars>>

(***************************************************************************)
(* One call of generate_summary                                            *)
(***************************************************************************)

\* Metric scores just below, at and above the 0.9 line.
SummaryScoreValues == {Frac(8, 10), Frac(9, 10), Frac(1, 1)}

OptionOf(S) == {None} \cup {Some(v) : v \in S}

PixelMetrics ==
  {[score |-> sc, diff_regions |-> regions] :
     sc \in SummaryScoreValues,
     regions \in {<<>>, <<"Minor">>, <<"Major", "Moderate", "Major">>}}

LayoutMetrics ==
  {[score |-> sc, diff_regions |-> regions] :
     sc \in {Frac(8, 10), Frac(9, 10)},
     regions \in {<<>>, <<"MissingElement", "SizeChange", "MissingElement">>,
                  <<"ExtraElement", "PositionShift">>}}

TypographyMetrics ==
  {[score |-> sc, diffs |-> diffs] :
     sc \in {Frac(8, 10), Frac(9, 10)},
     diffs \in {<<>>, <<{"FontFamilyMismatch", "FontSizeDiff"}, {"FontWeightDiff"},
                        {"FontFamilyMismatch"}>>}}

ColorMetrics ==
  {[score |-> sc, diffs |-> diffs] :
     sc \in {Frac(8, 10), Frac(9, 10)}, diffs \in {<<>>, <<"shift", "shift">>}}

ContentMetrics ==
  {[score |-> sc, missing_text |-> texts[1], extra_text |-> texts[2]] :
     sc \in {Frac(8, 10), Frac(9, 10)},
     texts \in {<<<<>>, <<>>>>, <<<<"Buy">>, <<>>>>, <<<<"Buy">>, <<"Sell", "Now">>>>}}

SummaryInputs ==
  /\ sum_scores \in [pixel : OptionOf(PixelMetrics), layout : OptionOf(LayoutMetrics),
                     typography : OptionOf(TypographyMetrics), color : OptionOf(ColorMetrics),
                     content : OptionOf(ContentMetrics)]
  /\ sum_similarity \in SummaryScoreValues
  /\ sum_threshold = Frac(9, 10)
  /\ summary = None

SummaryIdle ==
  /\ sum_scores = None
  /\ sum_similarity = None
  /\ sum_threshold = None
  /\ summary = None

\* let passed = similarity >= threshold; let summary = generate_summary(...)
GenerateSummary ==
  /\ summary = None
  /\ summary' = Some([passed  |-> FracGeq(sum_similarity, sum_threshold),
                      summary |-> generate_summary(sum_scores, sum_similarity, sum_threshold)])
  /\ UNCHANGED <<sum_scores, sum_similarity, sum_threshold, nonSummaryVars>>

(***************************************************************************)
(* One call of image_to_normalized_view with any options, followed by the  *)
(* DOM filter and the mask the compare run applies to the view.            *)
(***************************************************************************)

LoadSource == <<".", "shot.png">>

LoadOutput == <<"art", "ref_screenshot.png">>

\* The files at the source path: a wide raster, a tall raster, no image data,
\* or nothing.
LoadFiles == {Raster(4, 2), Raster(1, 3), DataFile(None)}

LoadFileSystems ==
  {[files |-> <<>>, dirs |-> {"."}]}
    \cup {[files |-> (LoadSource :> f), dirs |-> {"."}] : f \in LoadFiles}

LoadOptionsSpace ==
  [no_resize : BOOLEAN, target_width : {None, Some(2), Some(5)},
   target_height : {None, Some(3)}, enable_ocr : BOOLEAN]

LoadIo == [fault : {"none", "save"}, ocr : {"blocks", "empty", "not_available", "error"}]

LoadInputs ==
  /\ load_path = LoadSource
  /\ load_options \in LoadOptionsSpace
  /\ load_io = None
  /\ load_fs \in LoadFileSystems
  /\ load_result = None
  /\ load_view = None
  /\ load_stage = "start"

LoadIdle ==
  /\ load_path = None
  /\ load_options = None
  /\ load_io = None
  /\ load_fs = [files |-> <<>>, dirs |-> {}]
  /\ load_result = None
  /\ load_view = None
  /\ load_stage = "idle"

\* image_to_normalized_view(path, output_path, &options)
LoadImageView ==
  /\ load_stage = "start"
  /\ \E io \in LoadIo :
       /\ load_result' = Some(image_to_normalized_view(load_fs, load_path, LoadOutput,
                                                       load_options, io).res)
       /\ load_fs' = image_to_normalized_view(load_fs, load_path, LoadOutput,
                                              load_options, io).fs
       /\ load_io' = Some(io)
  /\ load_view' = IF Unwrap(load_result').ok THEN Some(Unwrap(load_result').val) ELSE None
  /\ load_stage' = IF Unwrap(load_result').ok THEN "loaded" ELSE "failed"
  /\ UNCHANGED <<load_path, load_options, nonLoadVars>>

\* apply_dom_ignores(&view, &selectors)
FilterLoadedView ==
  /\ load_stage = "loaded"
  /\ \E selectors \in {<<>>, <<<<"d", "i", "v">>>>} :
       load_view' = Some(apply_dom_ignores(Unwrap(load_view), selectors))
  /\ load_stage' = "filtered"
  /\ UNCHANGED <<load_path, load_options, load_io, load_fs, load_result, nonLoadVars>>

\* apply_ignore_regions(&view, &regions, artifacts_dir, "ref")
MaskLoadedView ==
  /\ load_stage = "filtered"
  /\ \E regions \in {<<>>, <<IgnoreRegion(0, 0, 1, 1)>>}, io \in {NoFault, Fault("save")} :
       /\ load_view' = IF apply_ignore_regions(load_fs, Unwrap(load_view), regions,
                                               "art", "ref", io).res.ok
                         THEN Some(apply_ignore_regions(load_fs, Unwrap(load_view), regions,
                                                        "art", "ref", io).res.val)
                         ELSE None
       /\ load_fs' = apply_ignore_regions(load_fs, Unwrap(load_view), regions,
                                          "art", "ref", io).fs
       /\ load_stage' = IF apply_ignore_regions(load_fs, Unwrap(load_view), regions,
                                                "art", "ref", io).res.ok
                          THEN "masked" ELSE "failed"
  /\ UNCHANGED <<load_path, load_options, load_io, load_result, nonLoadVars>>

(***************************************************************************)
(* One resolution of the compare settings from raw arguments, parsed       *)
(* command-line values and a loaded config.                                *)
(***************************************************************************)

\* The ways one option shows up in the raw arguments: not at all, as
\* `--flag value`, or as `--flag=value`.
FlagForms(flag) ==
  {<<>>, <<Arg(flag, "bare"), Arg("v", "value")>>, <<Arg(flag, "eq")>>}

GivenArgs ==
  {<<Arg("compare", "value"), Arg("--ref", "eq")>> \o a \o b \o c \o d \o e :
     a \in FlagForms("--viewport"), b \in FlagForms("--threshold"),
     c \in FlagForms("--nav-timeout"), d \in FlagForms("--network-idle-timeout"),
     e \in FlagForms("--process-timeout")}

\* A config file's values; they differ from CliValues in every setting.
FileConfig ==
  [viewport |-> [width |-> 8, height |-> 6], threshold |-> Frac(1, 2),
   timeouts |-> [navigation |-> 7, network_idle |-> 3, process |-> 9],
   metric_weights |-> [pixel |-> 1, layout |-> 1, typography |-> 1, color |-> 1,
                       content |-> 1]]

SettingsInputs ==
  /\ given_args \in GivenArgs
  /\ given_cli = CliValues
  /\ given_config \in {DefaultConfig, FileConfig}
  /\ resolved_settings = None

SettingsIdle ==
  /\ given_args = <<>>
  /\ given_cli = None
  /\ given_config = None
  /\ resolved_settings = None

\* let flag_sources = CompareFlagSources::from_args(&raw_args);
\* let resolved = resolve_compare_settings(...)
ResolveSettings ==
  /\ resolved_settings = None
  /\ resolved_settings' =
       Some(resolve_compare_settings(given_cli.viewport, given_cli.threshold,
                                     given_cli.nav_timeout, given_cli.network_idle_timeout,
                                     given_cli.process_timeout, given_config,
                                     CompareFlagSources_from_args(given_args)))
  /\ UNCHANGED <<given_args, given_cli, given_config, nonSettingsVars>>

(***************************************************************************)
(* One call of resize_with_letterbox on a source and a target size.        *)
(***************************************************************************)

\* Sides of the sources and targets tried, in pixels.
MaxSide == 4

LetterboxSizes == [w : 1 .. MaxSide, h : 1 .. MaxSide]

LetterboxInputs ==
  /\ lb_source \in LetterboxSizes
  /\ lb_target \in LetterboxSizes
  /\ lb_canvas = None

LetterboxIdle ==
  /\ lb_source = None
  /\ lb_target = None
  /\ lb_canvas = None

\* resize_with_letterbox(&img, target_width, target_height)
ResizeWithLetterbox ==
  /\ lb_canvas = None
  /\ lb_canvas' = Some(resize_with_letterbox(Raster(lb_source.w, lb_source.h),
                                             lb_target.w, lb_target.h))
  /\ UNCHANGED <<lb_source, lb_target, nonLetterboxVars>>

NextLoad == LoadImageView \/ FilterLoadedView \/ MaskLoadedView

InitLoad == LoadInputs /\ RunIdle /\ ScoreIdle /\ MaskIdle /\ DomIdle /\ ParseIdle /\ QualityIdle /\ SummaryIdle /\ SettingsIdle /\ LetterboxIdle

SpecLoad == InitLoad /\ [][NextLoad]_vars

NextSettings == ResolveSettings

InitSettings == SettingsInputs /\ RunIdle /\ ScoreIdle /\ MaskIdle /\ DomIdle /\ ParseIdle /\ QualityIdle /\ SummaryIdle /\ LoadIdle /\ LetterboxIdle

SpecSettings == InitSettings /\ [][NextSettings]_vars

NextLetterbox == ResizeWithLetterbox

InitLetterbox == LetterboxInputs /\ RunIdle /\ ScoreIdle /\ MaskIdle /\ DomIdle /\ ParseIdle /\ QualityIdle /\ SummaryIdle /\ LoadIdle /\ SettingsIdle

SpecLetterbox == InitLetterbox /\ [][NextLetterbox]_vars

NextQuality == ScoreQuality

InitQuality == QualityInputs /\ RunIdle /\ ScoreIdle /\ MaskIdle /\ DomIdle /\ ParseIdle /\ SummaryIdle /\ LoadIdle /\ SettingsIdle /\ LetterboxIdle

SpecQuality == InitQuality /\ [][NextQuality]_vars

NextSummary == GenerateSummary

InitSummary == SummaryInputs /\ RunIdle /\ ScoreIdle /\ MaskIdle /\ DomIdle /\ ParseIdle /\ QualityIdle /\ LoadIdle /\ SettingsIdle /\ LetterboxIdle

SpecSummary == InitSummary /\ [][NextSummary]_vars

NextScore == Combine

InitScore == ScoreInputs /\ RunIdle /\ MaskIdle /\ DomIdle /\ ParseIdle /\ QualityIdle /\ SummaryIdle /\ LoadIdle /\ SettingsIdle /\ LetterboxIdle

SpecScore == InitScore /\ [][NextScore]_vars

NextMask == ApplyIgnoreRegions

InitMask == MaskInputs /\ RunIdle /\ ScoreIdle /\ DomIdle /\ ParseIdle /\ QualityIdle /\ SummaryIdle /\ LoadIdle /\ SettingsIdle /\ LetterboxIdle

SpecMask == InitMask /\ [][NextMask]_vars

NextDom == FilterDom \/ FilterDomAgain

InitDom == DomInputs /\ RunIdle /\ ScoreIdle /\ MaskIdle /\ ParseIdle /\ QualityIdle /\ SummaryIdle /\ LoadIdle /\ SettingsIdle /\ LetterboxIdle

SpecDom == InitDom /\ [][NextDom]_vars

NextParse == ParseIgnoreSelectors

InitParse == ParseInputs /\ RunIdle /\ ScoreIdle /\ MaskIdle /\ DomIdle /\ QualityIdle /\ SummaryIdle /\ LoadIdle /\ SettingsIdle /\ LetterboxIdle

SpecParse == InitParse /\ [][NextParse]_vars

Init == InitRun /\ ScoreIdle /\ MaskIdle /\ DomIdle /\ ParseIdle /\ QualityIdle /\ SummaryIdle /\ LoadIdle /\ SettingsIdle /\ LetterboxIdle

Next ==
  \/ LoadConfig
  \/ ParseRef
  \/ ParseImpl
  \/ ParseMetricKinds
  \/ LoadIgnoreRegions
  \/ CreateArtifactsDir
  \/ NormalizeRef
  \/ NormalizeImpl
  \/ ApplyDomIgnores
  \/ MaskRef
  \/ MaskImpl
  \/ RunMetrics
  \/ PersistArtifacts
  \/ WriteOutput

Spec == Init /\ [][Next]_vars

PresentSlots == {k \in Slots : IsSome(scores[k])}

PresentWeight == SumOver(PresentSlots, weights)

PresentWeightedSum ==
  SumOver(PresentSlots,
          [k \in Slots |-> weights[k] * (IF IsSome(scores[k]) THEN Unwrap(scores[k]) ELSE 0)])

\* C2: the combined score is (sum over present slots of weight*score) /
\* (sum over present slots of weight); absent slots enter neither sum, and
\* the result is 0.0 when no slot is present or the present weights total 0.
C2_CombinedIsPresentWeightedMean ==
  IsSome(combined) =>
    IF PresentSlots = {} \/ PresentWeight = 0
      THEN Unwrap(combined).num = 0
      ELSE FracEq(Unwrap(combined), Frac(PresentWeightedSum, PresentWeight * ScoreDen))

\* A combination with an absent slot of positive weight next to a present one.
C2_Witness ==
  /\ IsSome(combined)
  /\ \E a \in Slots, p \in Slots :
       /\ ~IsSome(scores[a]) /\ weights[a] > 0
       /\ IsSome(scores[p]) /\ weights[p] > 0 /\ Unwrap(scores[p]) > 0

\* C3: with present scores in [0,1] and non-negative weights the combined
\* score lies in [0,1].
C3_CombinedInUnitInterval ==
  IsSome(combined) =>
    /\ Unwrap(combined).den > 0
    /\ 0 <= Unwrap(combined).num
    /\ Unwrap(combined).num <= Unwrap(combined).den

\* A combination of unequal weights above one unit whose result is exactly 1.
C3_Witness ==
  /\ IsSome(combined)
  /\ \E p \in Slots, q \in Slots :
       /\ IsSome(scores[p]) /\ IsSome(scores[q]) /\ weights[p] > weights[q] /\ weights[q] > 0
  /\ Unwrap(combined).num = Unwrap(combined).den

(***************************************************************************)
(* Properties of the compare run                                           *)
(***************************************************************************)

Called(step) == \E i \in DOMAIN calls : calls[i] = step

Exited == pc = "exited"

ErrorSteps ==
  {"load_config", "parse_ref", "parse_impl", "parse_metrics", "ignore_regions", "create_dir",
   "normalize_ref", "normalize_impl", "mask_ref", "mask_impl", "metrics", "artifacts", "output"}

\* C1: a run that completes reports passed = (similarity >= threshold),
\* equality passing, and exits 0 when passed and 1 when not; a run ended by
\* an error at any step exits 2 and never 0 or 1.
C1_ExitCodes ==
  Exited =>
    /\ IsSome(exit_code) /\ IsSome(out)
    /\ failed_at = None =>
         /\ Unwrap(out).mode = "compare"
         /\ Unwrap(out).passed <=>
              (Unwrap(out).similarity.num * Unwrap(out).threshold.den
                 >= Unwrap(out).threshold.num * Unwrap(out).similarity.den)
         /\ Unwrap(exit_code) = (IF Unwrap(out).passed THEN 0 ELSE 1)
    /\ failed_at # None =>
         /\ Unwrap(failed_at) \in ErrorSteps
         /\ Unwrap(out).mode = "error"
         /\ Unwrap(exit_code) = 2

\* A completed run whose similarity equals its threshold exactly, and passes.
C1_Witness ==
  /\ Exited /\ failed_at = None
  /\ FracEq(Unwrap(out).similarity, Unwrap(out).threshold)
  /\ Unwrap(out).similarity.num > 0
  /\ exit_code = Some(0)

\* C4: the effective metric set is <<Pixel, Color>> exactly when the
\* selection is empty and neither post-filter view has a DOM; otherwise it
\* is the selection, same members in the same order.
C4_EffectiveMetrics ==
  Called("metrics") =>
    LET defaulted == /\ run.selected_metrics = <<>>
                     /\ ~IsSome(Unwrap(run.ref_view).dom)
                     /\ ~IsSome(Unwrap(run.impl_view).dom)
    IN  /\ defaulted => run.effective_metrics = <<"Pixel", "Color">>
        /\ ~defaulted => run.effective_metrics = run.selected_metrics

\* An empty selection met by a view with a DOM: the effective set stays empty.
C4_Witness ==
  /\ Called("metrics")
  /\ run.selected_metrics = <<>>
  /\ IsSome(Unwrap(run.ref_view).dom)
  /\ run.effective_metrics = <<>>
  /\ IsSome(run.metrics_scores)

FigmaChecks == {"figma_info", "node_id", "FigmaAuth::from_env", "FigmaClient::from_auth"}

Backends == {"url_to_normalized_view", "figma_to_normalized_view"}

InTrace(i, names) == \E k \in DOMAIN i.trace : i.trace[k] \in names

\* What every resolved override has to look like: no backend, no Figma
\* check, the view (if any) comes from the Image branch at viewport size.
ServedByMock(i, path) ==
  /\ i.image_path = Some(path)
  /\ ~InTrace(i, Backends \cup FigmaChecks)
  /\ InTrace(i, {"image_to_normalized_view"})
  /\ IsSome(i.view) =>
       /\ Unwrap(i.view).kind = "Image"
       /\ Unwrap(i.view).width = Unwrap(run.settings).viewport.width
       /\ Unwrap(i.view).height = Unwrap(run.settings).viewport.height

ErrorPayloadOf(o) == Unwrap(o).error

EndedWithError(category) ==
  /\ Exited /\ IsSome(out) /\ exit_code = Some(2)
  /\ Unwrap(out).mode = "error"
  /\ ErrorPayloadOf(out).category = category

\* The outcome of the last ingestion was decided by the Figma arm itself.
FigmaBranchTaken(i) ==
  /\ i.resource.kind = "Figma"
  /\ i.image_path = None
  /\ IsSome(i.resource.figma_info)

\* C6 as stated: a Figma resource without a mock override ends the run with
\* exit 2 and a remediation naming FIGMA_TOKEN when the credential is
\* missing, and a remediation naming node-id when the node-id is missing.
C6_RemediationNamesCause ==
  (IsSome(ingest) /\ FigmaBranchTaken(Unwrap(ingest))) =>
    LET i    == Unwrap(ingest)
        info == Unwrap(i.resource.figma_info)
    IN  /\ ~IsSome(info.node_id) =>
             /\ EndedWithError("config")
             /\ Mentions(Unwrap(ErrorPayloadOf(out).remediation), "node-id")
        /\ (IsSome(info.node_id) /\ ~IsSome(FigmaAuth_from_env(env))) =>
             /\ EndedWithError("config")
             /\ Mentions(Unwrap(ErrorPayloadOf(out).remediation), "FIGMA_TOKEN")

\* C7: an Image resource whose path does not exist makes load_image return
\* NotFound carrying that path; no screenshot is written for that side and
\* the run ends with exit 2 and a config error whose message holds the path.
C7_MissingImage ==
  IsSome(ingest) =>
    LET i    == Unwrap(ingest)
        path == PathOf(i.resource.value)
    IN  (i.resource.kind = "Image" /\ ~Exists(InitialFs, path)) =>
          /\ load_image(fs, path) = Err(ImageLoadError("NotFound", PathDisplay(path)))
          /\ i.view = None
          /\ ~Exists(fs, Join(Unwrap(run.artifacts_dir), ScreenshotName(i.prefix)))
          /\ EndedWithError("config")
          /\ Mentions(ErrorPayloadOf(out).message, i.resource.value)
          /\ Mentions(ErrorPayloadOf(out).message, "found:")
          /\ Unwrap(failed_at) = (IF i.prefix = "ref" THEN "normalize_ref" ELSE "normalize_impl")

\* The implementation side is the missing image, after the reference side
\* was normalized and its screenshot written.
C7_Witness ==
  /\ IsSome(ingest)
  /\ Unwrap(ingest).prefix = "impl"
  /\ Unwrap(ingest).resource = ParsedResource("Image", "missing.png", None)
  /\ IsSome(run.ref_view)
  /\ Exists(fs, Join(Unwrap(run.artifacts_dir), ScreenshotName("ref")))
  /\ exit_code = Some(2)

RetentionRequested == cli.keep_artifacts \/ IsSome(cli.artifacts_dir)

\* C8 as stated: without --keep-artifacts and --artifacts-dir, the artifacts
\* directory the run created is gone when the run ends, on every exit path.
C8_ArtifactsDirRemoved ==
  (Exited /\ ~RetentionRequested /\ IsSome(run.artifacts_dir)) =>
    /\ Unwrap(run.artifacts_dir) \notin fs.dirs
    /\ \A path \in DOMAIN fs.files : path[1] # Unwrap(run.artifacts_dir)

BadRegionsFile(path) ==
  \/ ~Exists(InitialFs, path)
  \/ ~IsSome(InitialFs.files[path].json)
  \/ Unwrap(InitialFs.files[path].json) = <<>>

\* C9: an ignore-regions file that is unreadable, not a JSON array of
\* regions, or empty yields a Config error, and the run exits 2 before the
\* artifacts directory is created and before any resource is normalized.
C9_BadIgnoreRegions ==
  (Called("ignore_regions") /\ IsSome(run.ignore_regions_path)
     /\ BadRegionsFile(PathOf(Unwrap(run.ignore_regions_path)))) =>
    /\ load_ignore_regions(fs, PathOf(Unwrap(run.ignore_regions_path))).ok = FALSE
    /\ load_ignore_regions(fs, PathOf(Unwrap(run.ignore_regions_path))).val.variant = "Config"
    /\ EndedWithError("config")
    /\ failed_at = Some("ignore_regions")
    /\ ~Called("create_dir") /\ ~Called("normalize_ref") /\ ~Called("normalize_impl")
    /\ run.artifacts_dir = None
    /\ ingest = None
    /\ fs = InitialFs

\* The file parses as a JSON array but holds no region.
C9_Witness ==
  /\ Exited
  /\ run.ignore_regions_path = Some("empty.json")
  /\ Mentions(ErrorPayloadOf(out).message, "regions")
  /\ exit_code = Some(2)

(***************************************************************************)
(* Properties of apply_ignore_regions                                      *)
(***************************************************************************)

\* The pixels of the stored screenshot that the masked file has cleared.
ClearedPixels ==
  LET path == Unwrap(masked).val.screenshot_path
  IN  {p \in Pixels(MaskWidth, MaskHeight) : shot_fs.files[path].px[p] = "T"}

\* Column (or row) c, the cell [c, c+1), meets [start, start + len), both in
\* units of 1 / RegionDen.
CellMeets(c, start, len) ==
  /\ (c + 1) * RegionDen > start
  /\ c * RegionDen < start + len

\* The pixels a region covers when its values are scaled by the image size.
NormalizedCover(r) ==
  {p \in Pixels(MaskWidth, MaskHeight) :
     /\ CellMeets(p[1], r.x * MaskWidth, r.width * MaskWidth)
     /\ CellMeets(p[2], r.y * MaskHeight, r.height * MaskHeight)}

\* The pixels a region covers when its values are pixel coordinates.
AbsoluteCover(r) ==
  {p \in Pixels(MaskWidth, MaskHeight) :
     /\ CellMeets(p[1], r.x, r.width)
     /\ CellMeets(p[2], r.y, r.height)}

AllAtMostOne(r) ==
  /\ r.x <= RegionDen /\ r.y <= RegionDen
  /\ r.width <= RegionDen /\ r.height <= RegionDen

\* One region of positive size was applied and the masked file written.
OneRegionMasked ==
  /\ IsSome(masked) /\ Unwrap(masked).ok
  /\ Len(shot_regions) = 1
  /\ shot_regions[1].width > 0 /\ shot_regions[1].height > 0

\* C10 as stated: a region is scaled by the image size when all four of x,
\* y, width, height are <= 1.0, and taken as pixels when any is > 1.0.
C10_AsStated ==
  OneRegionMasked =>
    ClearedPixels = (IF AllAtMostOne(shot_regions[1])
                       THEN NormalizedCover(shot_regions[1])
                       ELSE AbsoluteCover(shot_regions[1]))

\* C10 (amended): a region is scaled by the image size when all four values
\* are <= 1.0 and x and y are >= 0; it is taken as pixels when any value is
\* > 1.0 or x or y is negative.
C10_NormalizedOrAbsolute ==
  OneRegionMasked =>
    ClearedPixels = (IF /\ AllAtMostOne(shot_regions[1])
                        /\ shot_regions[1].x >= 0 /\ shot_regions[1].y >= 0
                       THEN NormalizedCover(shot_regions[1])
                       ELSE AbsoluteCover(shot_regions[1]))

\* A region with x < 0 and every value <= 1.0 whose pixel reading clears
\* fewer pixels than its scaled reading would.
C10_Witness ==
  /\ OneRegionMasked
  /\ shot_regions[1].x < 0 /\ AllAtMostOne(shot_regions[1])
  /\ ClearedPixels = AbsoluteCover(shot_regions[1])
  /\ ClearedPixels # {}
  /\ ClearedPixels # NormalizedCover(shot_regions[1])

\* The pixels a region covers, by the reading the code gives its values.
ResolvedCover(r) ==
  IF AllAtMostOne(r) /\ r.x >= 0 /\ r.y >= 0 THEN NormalizedCover(r) ELSE AbsoluteCover(r)

\* The pixels covered by some region of positive width and height.
CoveredPixels ==
  UNION {ResolvedCover(shot_regions[i]) :
           i \in {k \in DOMAIN shot_regions :
                    shot_regions[k].width > 0 /\ shot_regions[k].height > 0}}

Masked == IsSome(masked) /\ Unwrap(masked).ok /\ shot_regions # <<>>

MaskedFile == shot_fs.files[Join("art", MaskedName("ref"))]

\* C11: after masking a W x H raster, every pixel covered by some region of
\* positive size is transparent and every other pixel equals the input
\* pixel; every write lies inside the image; regions with width <= 0 or
\* height <= 0 change nothing; an empty region list leaves the raster as is.
C11_MaskEffect ==
  /\ Masked =>
       /\ DOMAIN MaskedFile.px = Pixels(MaskWidth, MaskHeight)
       /\ \A p \in Pixels(MaskWidth, MaskHeight) :
            MaskedFile.px[p] = (IF p \in CoveredPixels THEN "T" ELSE MaskShot.px[p])
       /\ \A i \in DOMAIN shot_regions :
            LET b == RegionBounds(shot_regions[i], MaskWidth, MaskHeight)
            IN  /\ 0 <= b.x_start /\ b.x_end <= MaskWidth
                /\ 0 <= b.y_start /\ b.y_end <= MaskHeight
  /\ (IsSome(masked) /\ shot_regions = <<>>) =>
       /\ Unwrap(masked) = Ok(shot_view)
       /\ shot_fs = MaskFs

\* Two regions were applied: the second has zero width at a fractional x
\* and is skipped, the first cleared some pixels and left others.
C11_Witness ==
  /\ Masked
  /\ Len(shot_regions) = 2
  /\ shot_regions[2].width = 0 /\ shot_regions[2].x % RegionDen # 0
  /\ CoveredPixels # {}
  /\ \E p \in Pixels(MaskWidth, MaskHeight) : MaskedFile.px[p] = "U"

\* C12: masking with a non-empty region list returns a new view whose
\* screenshot_path is artifacts_dir/<prefix>_masked.png and whose other
\* fields equal the input view's; the input view's raster is not modified.
C12_MaskedView ==
  Masked =>
    LET v == Unwrap(masked).val IN
    /\ v.screenshot_path = <<"art", "ref_masked.png">>
    /\ v = [shot_view EXCEPT !.screenshot_path = <<"art", "ref_masked.png">>]
    /\ Exists(shot_fs, v.screenshot_path)
    /\ shot_fs.files[shot_view.screenshot_path] = MaskShot
    /\ DOMAIN shot_fs.files = DOMAIN MaskFs.files \cup {v.screenshot_path}

\* A page view with DOM and OCR blocks was masked and some pixel cleared.
C12_Witness ==
  /\ Masked
  /\ IsSome(shot_view.dom) /\ IsSome(shot_view.ocr_blocks)
  /\ MaskedFile # MaskShot


(***************************************************************************)
(* DOM selector filter                                                     *)
(***************************************************************************)

\* The selector semantics as documented: "#lit" matches a node whose "id"
\* attribute or own id equals lit, ".lit" a node with a class token equal to
\* lit, a bare token a node whose tag equals it, all ignoring ASCII case.
DocumentedMatch(node, selector) ==
  IF Len(selector) > 0 /\ selector[1] = "#" THEN
    \/ /\ "id" \in DOMAIN node.attributes
       /\ eq_ignore_ascii_case(node.attributes["id"], Tail(selector))
    \/ eq_ignore_ascii_case(node.id, Tail(selector))
  ELSE IF Len(selector) > 0 /\ selector[1] = "." THEN
    /\ "class" \in DOMAIN node.attributes
    /\ \E i \in DOMAIN split_whitespace(node.attributes["class"]) :
         eq_ignore_ascii_case(split_whitespace(node.attributes["class"])[i], Tail(selector))
  ELSE eq_ignore_ascii_case(node.tag, selector)

DocumentedSurvivor(node) ==
  \A i \in DOMAIN dom_selectors : ~DocumentedMatch(node, dom_selectors[i])

CodeSurvivor(node) ==
  \A i \in DOMAIN dom_selectors : ~selector_matches(node, dom_selectors[i])

\* The filtered view keeps every field of the input view but the DOM's node
\* list, which is the subsequence of the input nodes that satisfy Keep.
FilteredKeeps(Keep(_)) ==
  IF IsSome(dom_view.dom)
    THEN Unwrap(filtered) =
           [dom_view EXCEPT !.dom =
              Some([Unwrap(dom_view.dom) EXCEPT
                      !.nodes = SelectSeq(Unwrap(dom_view.dom).nodes, Keep)])]
    ELSE Unwrap(filtered) = dom_view

\* C13: apply_dom_ignores returns the input view with its DOM node list
\* replaced by the subsequence, in original order, of the nodes that match no
\* selector under the documented selector semantics; surviving nodes
\* (children and parent ids included) and all other fields are unchanged.
C13_DocumentedFilter == IsSome(filtered) => FilteredKeeps(DocumentedSurvivor)

\* The same statement with the matching the code performs.
C13_CodeFilter == IsSome(filtered) => FilteredKeeps(CodeSurvivor)

\* A node is removed while another node that names it as parent survives.
C13_Witness ==
  /\ IsSome(filtered) /\ IsSome(dom_view.dom)
  /\ \E i \in DOMAIN Unwrap(Unwrap(filtered).dom).nodes :
       LET n == Unwrap(Unwrap(filtered).dom).nodes[i] IN
         /\ IsSome(n.parent)
         /\ \A j \in DOMAIN Unwrap(Unwrap(filtered).dom).nodes :
              Unwrap(Unwrap(filtered).dom).nodes[j].id # Unwrap(n.parent)
         /\ \E j \in DOMAIN Unwrap(dom_view.dom).nodes :
              Unwrap(dom_view.dom).nodes[j].id = Unwrap(n.parent)


\* C14: applying apply_dom_ignores a second time with the same selectors
\* yields the same view as applying it once.
C14_Idempotent == IsSome(refiltered) => refiltered = filtered

\* Both applications ran, the first one removed a node and kept another.
C14_Witness ==
  /\ IsSome(refiltered) /\ IsSome(dom_view.dom)
  /\ Unwrap(filtered) # dom_view
  /\ Unwrap(Unwrap(filtered).dom).nodes # <<>>
  /\ Len(Unwrap(dom_view.dom).nodes) = MaxNodes


(***************************************************************************)
(* Selector parsing                                                        *)
(***************************************************************************)

\* The positions that bound the comma-separated parts of str: before the
\* first character, every comma, and after the last character.
Delims(str) == {0, Len(str) + 1} \cup {i \in DOMAIN str : str[i] = ","}

NthDelim(str, k) ==
  CHOOSE d \in Delims(str) : Cardinality({e \in Delims(str) : e < d}) = k - 1

\* The k-th part, between the k-th and the next delimiter.
PartOf(str, k) == SubSeq(str, NthDelim(str, k) + 1, NthDelim(str, k + 1) - 1)

Solid(part) == {i \in DOMAIN part : ~IsWhitespace(part[i])}

FirstOf(S) == CHOOSE i \in S : \A j \in S : i <= j

LastOf(S) == CHOOSE i \in S : \A j \in S : i >= j

\* The part from its first to its last non-blank character, in lowercase.
Normalized(part) ==
  IF Solid(part) = {} THEN <<>>
  ELSE to_ascii_lowercase(SubSeq(part, FirstOf(Solid(part)), LastOf(Solid(part))))

NonEmpty(str) == str # <<>>

ExpectedSelectors(str) ==
  SelectSeq([k \in 1 .. (Cardinality(Delims(str)) - 1) |-> Normalized(PartOf(str, k))],
            NonEmpty)

\* C15: parse_ignore_selectors returns, in their original order, the
\* comma-separated parts of its input, each trimmed and lowercased, without
\* the parts that are empty after trimming; an absent input gives the empty list.
C15_ParsedSelectors ==
  IsSome(parsed_selectors) =>
    Unwrap(parsed_selectors) =
      (IF IsSome(raw_selectors) THEN ExpectedSelectors(Unwrap(raw_selectors)) ELSE <<>>)

\* Three parts, one of them blank, the others padded and in upper case.
C15_Witness ==
  /\ IsSome(parsed_selectors) /\ IsSome(raw_selectors)
  /\ Cardinality(Delims(Unwrap(raw_selectors))) = 4
  /\ Unwrap(parsed_selectors) = <<<<"a">>, <<"#">>>>
  /\ \E i \in DOMAIN Unwrap(raw_selectors) : Unwrap(raw_selectors)[i] = " "


(***************************************************************************)
(* Properties of score_quality                                             *)
(***************************************************************************)

QualityScored == IsSome(quality)

QualityScore == Unwrap(quality).score

QualityFindings == Unwrap(quality).findings

\* The sum of the baseline and all contributions, before it is bounded.
UnboundedScore ==
  RawScore(Structure(quality_view), OcrBonus(quality_view),
           alignment_heuristic(quality_view, quality_viewport),
           evaluate_spacing(collect_vertical_gaps(quality_view)),
           collect_vertical_gaps(quality_view))

\* C16: the score score_quality returns lies in [0, 1], whatever DOM, Figma
\* tree, OCR blocks and bounding boxes the view carries.
C16_ScoreInUnitInterval ==
  QualityScored =>
    /\ QualityScore.den > 0
    /\ FracGeq(QualityScore, Frac(0, 1))
    /\ FracGeq(Frac(1, 1), QualityScore)

\* A view whose contributions add up to more than 1.
C16_Witness ==
  /\ QualityScored
  /\ ~FracGeq(Frac(1, 1), UnboundedScore)
  /\ FracEq(QualityScore, Frac(1, 1))


NoMetadata == ~IsSome(quality_view.dom) /\ ~IsSome(quality_view.figma_tree)

HasOcrBlocks == IsSome(quality_view.ocr_blocks) /\ Unwrap(quality_view.ocr_blocks) # <<>>

KindOf(finding) == <<finding.severity, finding.finding_type>>

\* C17: for a view with neither DOM nor Figma metadata the findings are, in
\* this order, a MissingHierarchy warning, the AlignmentInconsistent info
\* finding "not enough elements" and the LowContrast info finding, and the
\* score is 0.4 - 0.1, plus 0.03 when the view has non-empty OCR blocks.
C17_NoMetadata ==
  (QualityScored /\ NoMetadata) =>
    /\ Len(QualityFindings) = 3
    /\ KindOf(QualityFindings[1]) = <<"Warning", "MissingHierarchy">>
    /\ KindOf(QualityFindings[2]) = <<"Info", "AlignmentInconsistent">>
    /\ QualityFindings[2].message = <<"Not", "enough", "elements", "to", "assess", "alignment">>
    /\ KindOf(QualityFindings[3]) = <<"Info", "LowContrast">>
    /\ FracEq(QualityScore, IF HasOcrBlocks THEN Frac(33, 100) ELSE Frac(30, 100))

\* A screenshot-only view with OCR blocks was scored 0.33.
C17_Witness ==
  /\ QualityScored /\ NoMetadata /\ HasOcrBlocks
  /\ FracEq(QualityScore, Frac(33, 100))
  /\ Len(QualityFindings) = 3


\* The six boxes at y = 0.0, 0.15, 0.32, 0.5, 0.68, 0.87, each 0.1 high.
SixBoxes ==
  UnitBoxes(<<<<0, 0>>, <<100, 150>>, <<200, 320>>, <<50, 500>>, <<50, 680>>, <<50, 870>>>>)

\* Four boxes 0.1 high, each 0.05 below the one before.
FourBoxes == UnitBoxes(<<<<0, 0>>, <<50, 150>>, <<100, 300>>, <<100, 450>>>>)

ScoredDomOf(boxes) ==
  QualityScored /\ IsSome(quality_view.dom) /\ ViewBoxes(quality_view) = boxes

HasSpacingFinding ==
  \E i \in DOMAIN QualityFindings : QualityFindings[i].finding_type = "SpacingInconsistent"

HasSpacingWarning ==
  \E i \in DOMAIN QualityFindings :
    KindOf(QualityFindings[i]) = <<"Warning", "SpacingInconsistent">>

\* C18: the findings for the DOM view of the six boxes (gaps 0.05, 0.07,
\* 0.08, 0.08, 0.09) include a SpacingInconsistent warning, and the findings
\* for four boxes separated by equal gaps include no spacing finding.
C18_SpacingTests ==
  /\ ScoredDomOf(SixBoxes) => HasSpacingWarning
  /\ ScoredDomOf(FourBoxes) => ~HasSpacingFinding

\* The second half of C18 alone.
C18_EqualGapsUnflagged == ScoredDomOf(FourBoxes) => ~HasSpacingFinding

\* The six boxes give five gaps in four buckets and no spacing finding.
C18_SixBoxesUnflagged ==
  /\ ScoredDomOf(SixBoxes)
  /\ collect_vertical_gaps(quality_view) = <<50, 70, 80, 80, 90>>
  /\ Buckets(collect_vertical_gaps(quality_view)) = {5, 7, 8, 9}
  /\ ~HasSpacingFinding

\* A view with five gaps in five buckets gets the warning.
C18_FiveBucketsFlagged == QualityScored /\ HasSpacingWarning


\* The score the view gets from everything but the spacing heuristic.
ScoreWithoutSpacing ==
  clamp(RawScore(Structure(quality_view), OcrBonus(quality_view),
                 alignment_heuristic(quality_view, quality_viewport), None, <<>>),
        Frac(0, 1), Frac(1, 1))

\* C19: when fewer than 5 vertical gaps above 0.001 are collected from the
\* view, no spacing finding is emitted and the score is the one the other
\* heuristics give, neither raised nor lowered.
C19_FewGapsNoContribution ==
  (QualityScored /\ Len(collect_vertical_gaps(quality_view)) < 5) =>
    /\ ~HasSpacingFinding
    /\ FracEq(QualityScore, ScoreWithoutSpacing)

\* With two to four gaps the score is 0.02 above the one without spacing.
C19_FewGapsBonus ==
  /\ QualityScored
  /\ Len(collect_vertical_gaps(quality_view)) \in 2 .. 4
  /\ ~HasSpacingFinding
  /\ FracEq(QualityScore, FracAdd(ScoreWithoutSpacing, Frac(2, 100)))


(***************************************************************************)
(* Properties of the alignment heuristic                                   *)
(***************************************************************************)

SortedPositions == SortPositions(Positions(quality_view, quality_viewport))

ClusterCenters == Centers(Clusters(SortedPositions, Tolerance(quality_viewport)))

Clustered == QualityScored /\ Len(Positions(quality_view, quality_viewport)) >= 3

\* The alignment finding follows the structure findings, which carry the
\* type MissingHierarchy.
AlignmentFinding ==
  QualityFindings[CHOOSE i \in DOMAIN QualityFindings :
                    QualityFindings[i].finding_type = "AlignmentInconsistent"]

ReportedOutliers == AlignmentFinding.message[1]

\* Whether x lies within distance d2 / 2 of some cluster center.
WithinHalf(x, d2) ==
  \E i \in DOMAIN ClusterCenters :
    2 * Abs(x * ClusterCenters[i].den - ClusterCenters[i].num) <= d2 * ClusterCenters[i].den

CentersAscending ==
  \A i, j \in DOMAIN ClusterCenters :
    i < j => ClusterCenters[i].num * ClusterCenters[j].den
               < ClusterCenters[j].num * ClusterCenters[i].den

\* C20 as stated: the cluster centers are ascending, and the positions that
\* are not within the tolerance t of their nearest center are the ones
\* counted as outliers.
C20_AsStated ==
  Clustered =>
    /\ CentersAscending
    /\ ReportedOutliers =
         Cardinality({i \in DOMAIN SortedPositions :
                        ~WithinHalf(SortedPositions[i], 2 * Tolerance(quality_viewport))})

\* C20, amended: the cluster centers are ascending, and the positions that
\* are not within 1.5 times the tolerance of their nearest center are the
\* ones counted as outliers.
C20_OutliersBeyondOneAndAHalf ==
  Clustered =>
    /\ CentersAscending
    /\ ReportedOutliers =
         Cardinality({i \in DOMAIN SortedPositions :
                        ~WithinHalf(SortedPositions[i], 3 * Tolerance(quality_viewport))})

\* Seven positions were clustered and one was counted as an outlier.
C20_Witness ==
  /\ Clustered
  /\ Len(SortedPositions) = 7
  /\ ReportedOutliers = 1

\* A position farther than t but not farther than 1.5 t from its center.
C20_DriftedPosition ==
  /\ Clustered
  /\ ReportedOutliers = 0
  /\ \E i \in DOMAIN SortedPositions :
       ~WithinHalf(SortedPositions[i], 2 * Tolerance(quality_viewport))


(***************************************************************************)
(* Properties of generate_summary                                          *)
(***************************************************************************)

Summarized == IsSome(summary)

TopIssues == Unwrap(summary).summary.top_issues

MajorRegionsText == <<"{}", "major", "visual", "difference", "region(s)", "found">>

\* The metric slot a summary line is derived from, by its format string.
SlotTexts ==
  [pixel |-> {<<"Pixel", "differences", "detected", "in", "~{}%", "of", "the", "image">>,
              MajorRegionsText},
   layout |-> {<<"{}", "element(s)", "missing", "from", "implementation">>,
               <<"{}", "extra", "element(s)", "in", "implementation">>,
               <<"{}", "element(s)", "shifted", "from", "expected", "position">>},
   typography |-> {<<"{}", "element(s)", "have", "mismatched", "font", "families">>,
                   <<"{}", "element(s)", "have", "incorrect", "font", "sizes">>},
   color |-> {<<"{}", "color", "difference(s)", "detected", "in", "palette">>},
   content |-> {<<"{}", "text", "element(s)", "missing", "from", "implementation">>,
                <<"{}", "extra", "text", "element(s)", "in", "implementation">>}]

\* The line comes from a metric that is present and scored below 0.9.
FromLowMetric(line) ==
  \E slot \in Slots :
    /\ line.text \in SlotTexts[slot]
    /\ IsSome(sum_scores[slot])
    /\ Unwrap(sum_scores[slot]).score.num * 10 < 9 * Unwrap(sum_scores[slot]).score.den

HeadAgrees ==
  /\ TopIssues # <<>>
  /\ TopIssues[1].text[4] =
       (IF sum_similarity.num * sum_threshold.den >= sum_threshold.num * sum_similarity.den
          THEN "passed" ELSE "failed")
  /\ (TopIssues[1].text[4] = "passed") = Unwrap(summary).passed

\* C21: the first summary entry is the overall line, reading "passed" exactly
\* when similarity >= threshold (as the passed flag does) and "failed"
\* otherwise; every later entry is derived from a present metric whose score
\* is below 0.9, so a metric scoring 0.9 or more contributes no entry.
C21_SummaryLines ==
  Summarized =>
    /\ HeadAgrees
    /\ \A i \in 2 .. Len(TopIssues) : FromLowMetric(TopIssues[i])

\* The same, leaving out the line that counts major pixel regions.
C21_ButMajorRegions ==
  Summarized =>
    /\ HeadAgrees
    /\ \A i \in 2 .. Len(TopIssues) :
         TopIssues[i].text # MajorRegionsText => FromLowMetric(TopIssues[i])

\* A pixel metric scoring 0.9 or more still contributes the major-region line.
C21_MajorRegionsOfHighScore ==
  /\ Summarized
  /\ IsSome(sum_scores.pixel)
  /\ FracGeq(Unwrap(sum_scores.pixel).score, Frac(9, 10))
  /\ \E i \in 2 .. Len(TopIssues) : TopIssues[i].text = MajorRegionsText


(***************************************************************************)
(* Properties of the retained artifacts                                    *)
(***************************************************************************)

Completed == Exited /\ failed_at = None /\ IsSome(out) /\ Unwrap(out).mode = "compare"

ArtifactNames ==
  {"diff_heatmap.png", "ref_dom.json", "impl_dom.json", "ref_figma.json", "impl_figma.json"}

InArtifactsDir(name) == Exists(fs, <<Unwrap(run.artifacts_dir), name>>)

Manifest == Unwrap(Unwrap(out).artifacts)

\* The manifest field names the file in the artifacts directory, or is absent.
NamesFileIf(field, present, name) ==
  field = (IF present THEN <<<<Unwrap(run.artifacts_dir), name>>>> ELSE <<>>)

\* C22: with retention requested a completed compare has written
\* diff_heatmap.png, <side>_dom.json exactly for the sides whose final view
\* has a DOM and <side>_figma.json exactly for the sides whose final view has
\* a Figma tree, and its manifest names the views' final screenshot paths;
\* without retention none of these files is ever written and the output has
\* no manifest.
C22_RetainedArtifacts ==
  /\ (Completed /\ RetentionRequested) =>
       /\ InArtifactsDir("diff_heatmap.png")
       /\ InArtifactsDir("ref_dom.json") <=> IsSome(Unwrap(run.ref_view).dom)
       /\ InArtifactsDir("impl_dom.json") <=> IsSome(Unwrap(run.impl_view).dom)
       /\ InArtifactsDir("ref_figma.json") <=> IsSome(Unwrap(run.ref_view).figma_tree)
       /\ InArtifactsDir("impl_figma.json") <=> IsSome(Unwrap(run.impl_view).figma_tree)
       /\ IsSome(Unwrap(out).artifacts)
       /\ Manifest.ref_screenshot = <<Unwrap(run.ref_view).screenshot_path>>
       /\ Manifest.impl_screenshot = <<Unwrap(run.impl_view).screenshot_path>>
       /\ Exists(fs, Unwrap(run.ref_view).screenshot_path)
       /\ Exists(fs, Unwrap(run.impl_view).screenshot_path)
       /\ NamesFileIf(Manifest.diff_image, TRUE, "diff_heatmap.png")
       /\ NamesFileIf(Manifest.ref_dom_snapshot, IsSome(Unwrap(run.ref_view).dom), "ref_dom.json")
       /\ NamesFileIf(Manifest.impl_figma_snapshot, IsSome(Unwrap(run.impl_view).figma_tree),
                      "impl_figma.json")
  /\ ~RetentionRequested =>
       /\ \A path \in DOMAIN fs.files : path[2] \notin ArtifactNames
       /\ Completed => Unwrap(out).artifacts = None

\* A retained run of a Figma reference against a page, both masked.
C22_Witness ==
  /\ Completed /\ RetentionRequested
  /\ IsSome(Unwrap(run.ref_view).figma_tree)
  /\ IsSome(Unwrap(run.impl_view).dom)
  /\ Unwrap(run.ref_view).screenshot_path[2] = MaskedName("ref")
  /\ InArtifactsDir("ref_figma.json") /\ InArtifactsDir("impl_dom.json")

(***************************************************************************)
(* C23: the raster behind a view has the view's dimensions                 *)
(***************************************************************************)

LoadedView == Unwrap(load_view)

LoadedSource == load_fs.files[LoadSource]

\* The options make image_to_normalized_view keep the source's size.
KeepsSourceSize ==
  \/ load_options.no_resize
  \/ ~IsSome(load_options.target_width)
  \/ ~IsSome(load_options.target_height)

\* A decodable raster of the view's dimensions is stored at its screenshot_path.
RasterMatchesView(files, shot) ==
  /\ shot.screenshot_path \in DOMAIN files
  /\ files[shot.screenshot_path].decodable
  /\ files[shot.screenshot_path].w = shot.width
  /\ files[shot.screenshot_path].h = shot.height
  /\ DOMAIN files[shot.screenshot_path].px = Pixels(shot.width, shot.height)

\* C23: every view that image_to_normalized_view returned, also after DOM
\* filtering and masking, has a raster at screenshot_path whose dimensions are
\* (view.width, view.height): the source's dimensions when no_resize is set or
\* a target dimension is missing, the target dimensions otherwise.
C23_RasterHasViewDimensions ==
  IsSome(load_view) =>
    /\ RasterMatchesView(load_fs.files, LoadedView)
    /\ KeepsSourceSize =>
         LoadedView.width = LoadedSource.w /\ LoadedView.height = LoadedSource.h
    /\ ~KeepsSourceSize =>
         /\ LoadedView.width = Unwrap(load_options.target_width)
         /\ LoadedView.height = Unwrap(load_options.target_height)

\* A resized view whose masked copy is the screenshot.
C23_Witness ==
  /\ load_stage = "masked"
  /\ IsSome(load_view)
  /\ ~KeepsSourceSize
  /\ LoadedView.screenshot_path = <<"art", "ref_masked.png">>
  /\ LoadedView.width # LoadedSource.w


(***************************************************************************)
(* C24: the canonical raster of a normalization                            *)
(***************************************************************************)

\* The step just taken is a normalization, and it succeeded.
JustNormalized ==
  /\ calls # <<>>
  /\ calls[Len(calls)] \in {"normalize_ref", "normalize_impl"}
  /\ IsSome(ingest)
  /\ IsSome(Unwrap(ingest).view)

CanonicalRaster(i) == Join(Unwrap(run.artifacts_dir), ScreenshotName(i.prefix))

LeavesCanonicalRaster(i) ==
  /\ Exists(fs, CanonicalRaster(i))
  /\ fs.files[CanonicalRaster(i)].decodable
  /\ Unwrap(i.view).screenshot_path = CanonicalRaster(i)

\* C24 as stated: every successful normalization with prefix p (Image, Url,
\* Figma or mock override) leaves the canonical raster at
\* artifacts_dir/p_screenshot.png and returns a view whose screenshot_path is
\* that path.
C24_CanonicalRaster ==
  JustNormalized => LeavesCanonicalRaster(Unwrap(ingest))

\* What the code does: the statement holds on every path but the Figma arm,
\* whose raster and screenshot_path are artifacts_dir/p_figma.png.
C24_CanonicalRasterUnlessFigma ==
  JustNormalized =>
    IF FigmaBranchTaken(Unwrap(ingest))
      THEN /\ Unwrap(Unwrap(ingest).view).screenshot_path
                = Join(Unwrap(run.artifacts_dir), FigmaName(Unwrap(ingest).prefix))
           /\ ~Exists(fs, CanonicalRaster(Unwrap(ingest)))
      ELSE LeavesCanonicalRaster(Unwrap(ingest))

\* A Figma node was exported successfully.
C24_FigmaExport ==
  /\ JustNormalized
  /\ FigmaBranchTaken(Unwrap(ingest))
  /\ Unwrap(ingest).prefix = "ref"


(***************************************************************************)
(* C25: which source each compare setting comes from                       *)
(***************************************************************************)

\* The flag appears in the raw arguments, as `--flag` or as `--flag=...`.
Appears(flag) ==
  \E i \in DOMAIN given_args :
     given_args[i] = Arg(flag, "bare") \/ given_args[i] = Arg(flag, "eq")

Resolved == Unwrap(resolved_settings)

FromCliIff(flag, used, cli_value, config_value) ==
  /\ Appears(flag) => used = cli_value
  /\ ~Appears(flag) => used = config_value

\* C25: viewport, threshold, navigation timeout, network-idle timeout and
\* process timeout are the command-line value exactly when the flag appears in
\* the raw arguments, the config value otherwise; the weights are the config's.
C25_SettingSources ==
  IsSome(resolved_settings) =>
    /\ FromCliIff("--viewport", Resolved.viewport, given_cli.viewport, given_config.viewport)
    /\ FromCliIff("--threshold", Resolved.threshold, given_cli.threshold,
                  given_config.threshold)
    /\ FromCliIff("--nav-timeout", Resolved.nav_timeout, given_cli.nav_timeout,
                  given_config.timeouts.navigation)
    /\ FromCliIff("--network-idle-timeout", Resolved.network_idle_timeout,
                  given_cli.network_idle_timeout, given_config.timeouts.network_idle)
    /\ FromCliIff("--process-timeout", Resolved.process_timeout, given_cli.process_timeout,
                  given_config.timeouts.process)
    /\ Resolved.weights = given_config.metric_weights

\* Settings of mixed origin: the threshold given as --threshold=..., the
\* viewport as --viewport WxH, the process timeout left to the config file.
C25_Witness ==
  /\ IsSome(resolved_settings)
  /\ given_config = FileConfig
  /\ \E i \in DOMAIN given_args : given_args[i] = Arg("--threshold", "eq")
  /\ \E i \in DOMAIN given_args : given_args[i] = Arg("--viewport", "bare")
  /\ ~Appears("--process-timeout")
  /\ Resolved.threshold = given_cli.threshold
  /\ Resolved.process_timeout = 9
  /\ Resolved.weights # DefaultWeights


(***************************************************************************)
(* C26: the category and remediation of a normalization failure            *)
(***************************************************************************)

NormalizationFailed ==
  /\ Exited
  /\ IsSome(failed_at)
  /\ Unwrap(failed_at) \in {"normalize_ref", "normalize_impl"}

LastCall(i) == i.trace[Len(i.trace)]

\* The failure under a failed normalization, read off the call that failed.
BackendTransportFailure(i) == LastCall(i) = "url_to_normalized_view"

FigmaBackendFailure(i) == LastCall(i) = "figma_to_normalized_view"

DecodeFailure(i) ==
  /\ LastCall(i) = "image_to_normalized_view"
  /\ Exists(fs, Unwrap(i.image_path))
  /\ ~fs.files[Unwrap(i.image_path)].decodable

MissingInput(i) ==
  \/ LastCall(i) \in {"figma_info", "node_id", "FigmaAuth::from_env"}
  \/ LastCall(i) = "image_to_normalized_view" /\ ~Exists(fs, Unwrap(i.image_path))

HasRemediation(o) ==
  /\ IsSome(ErrorPayloadOf(o).remediation)
  /\ Unwrap(ErrorPayloadOf(o).remediation) # <<>>

\* C26 as stated: a failed normalization ends with the category of the
\* underlying failure (network, figma, image, config), and every error
\* envelope carries a non-empty remediation.
C26_CategoryReflectsFailure ==
  /\ NormalizationFailed =>
       /\ BackendTransportFailure(Unwrap(ingest)) => ErrorPayloadOf(out).category = "network"
       /\ FigmaBackendFailure(Unwrap(ingest)) => ErrorPayloadOf(out).category = "figma"
       /\ DecodeFailure(Unwrap(ingest)) => ErrorPayloadOf(out).category = "image"
       /\ MissingInput(Unwrap(ingest)) => ErrorPayloadOf(out).category = "config"
  /\ (IsSome(out) /\ Unwrap(out).mode = "error") => HasRemediation(out)

\* What the code does: every failed normalization is reported as config, with
\* the config remediation.
C26_AlwaysConfig ==
  /\ NormalizationFailed =>
       /\ ErrorPayloadOf(out).category = "config"
       /\ ErrorPayloadOf(out).remediation = Some(Remediation("Config"))
  /\ (IsSome(out) /\ Unwrap(out).mode = "error") => HasRemediation(out)

\* A page render that failed in the backend.
C26_TransportFailure ==
  /\ NormalizationFailed
  /\ BackendTransportFailure(Unwrap(ingest))
  /\ Unwrap(ingest).prefix = "impl"

\* An image that exists and does not decode.
C26_DecodeFailure ==
  /\ NormalizationFailed
  /\ DecodeFailure(Unwrap(ingest))


(***************************************************************************)
(* C27: the order of the steps of a compare run                            *)
(***************************************************************************)

\* The steps of run() in program order.  Score combination belongs to the
\* "metrics" step, the clean-up of the artifacts directory to "output".
StepOrder ==
  <<"load_config", "parse_ref", "parse_impl", "parse_metrics", "ignore_regions",
    "create_dir", "normalize_ref", "normalize_impl", "dom_ignores", "mask_ref", "mask_impl",
    "metrics", "artifacts", "output">>

DiffArtifactWritten ==
  /\ IsSome(run.artifacts_dir)
  /\ Exists(fs, Join(Unwrap(run.artifacts_dir), "diff_heatmap.png"))

CleanedUp ==
  /\ Called("normalize_ref")
  /\ Unwrap(run.artifacts_dir) \notin fs.dirs

\* C27: the steps of a compare run happen in program order (normalize ref,
\* normalize impl, DOM filtering, masking, metrics and score combination,
\* diff-artifact writes, output, clean-up); a failure ends the run with no
\* later step, so impl is not normalized after ref failed, metrics run only
\* after filtering and masking, and the diff artifact is written only after
\* the metrics completed.
C27_StepOrder ==
  /\ Len(calls) <= Len(StepOrder)
  /\ calls = SubSeq(StepOrder, 1, Len(calls))
  /\ IsSome(failed_at) => Exited /\ calls[Len(calls)] = Unwrap(failed_at)
  /\ Called("normalize_impl") => IsSome(run.ref_view)
  /\ Called("dom_ignores") => IsSome(run.ref_view) /\ IsSome(run.impl_view)
  /\ Called("metrics") => Called("dom_ignores") /\ Called("mask_ref") /\ Called("mask_impl")
  /\ IsSome(run.similarity) <=> IsSome(run.metrics_scores)
  /\ DiffArtifactWritten => Called("artifacts") /\ IsSome(run.metrics_scores)
  /\ IsSome(run.artifacts) => IsSome(run.metrics_scores)
  /\ (IsSome(out) /\ Unwrap(out).mode = "compare") => calls = StepOrder
  /\ CleanedUp => calls = StepOrder /\ Unwrap(out).mode = "compare"

\* A run stopped by the implementation's mask after the reference was masked.
C27_StoppedAtMask ==
  /\ Exited
  /\ failed_at = Some("mask_impl")
  /\ ~Called("metrics")
  /\ Unwrap(run.ref_view).screenshot_path[2] = "ref_masked.png"


(***************************************************************************)
(* C28: the geometry of the letterbox                                      *)
(***************************************************************************)

Canvas == Unwrap(lb_canvas)

\* n = round(num / den), halves rounded up.
IsRound(n, num, den) ==
  /\ 2 * n * den <= 2 * num + den
  /\ 2 * num + den < 2 * (n + 1) * den

\* s = min(W/w, H/h) is W/w.
ScaledByWidth == lb_target.w * lb_source.h <= lb_target.h * lb_source.w

\* (new_w, new_h) = (round(w*s), round(h*s))
IsScaledSize(new_w, new_h) ==
  IF ScaledByWidth
    THEN /\ IsRound(new_w, lb_source.w * lb_target.w, lb_source.w)
         /\ IsRound(new_h, lb_source.h * lb_target.w, lb_source.w)
    ELSE /\ IsRound(new_w, lb_source.w * lb_target.h, lb_source.h)
         /\ IsRound(new_h, lb_source.h * lb_target.h, lb_source.h)

\* The canvas has the target size and shows the source exactly on the
\* new_w x new_h rectangle at the floor-division offsets.
EmbedsAt(new_w, new_h) ==
  /\ Canvas.w = lb_target.w /\ Canvas.h = lb_target.h
  /\ DOMAIN Canvas.px = Pixels(lb_target.w, lb_target.h)
  /\ new_w <= lb_target.w /\ new_h <= lb_target.h
  /\ {p \in DOMAIN Canvas.px : Canvas.px[p] = "S"}
       = {p \in Pixels(lb_target.w, lb_target.h) :
            /\ (lb_target.w - new_w) \div 2 <= p[1]
            /\ p[1] < (lb_target.w - new_w) \div 2 + new_w
            /\ (lb_target.h - new_h) \div 2 <= p[2]
            /\ p[2] < (lb_target.h - new_h) \div 2 + new_h}

\* The source's aspect is kept to within one pixel of rounding: moving one
\* side of the embedded size by at most a pixel gives exactly the source's w/h.
KeepsAspect(new_w, new_h) ==
  \/ Abs(new_h * lb_source.w - new_w * lb_source.h) <= lb_source.w
  \/ Abs(new_w * lb_source.h - new_h * lb_source.w) <= lb_source.h

FillsOneAxis(new_w, new_h) == new_w = lb_target.w \/ new_h = lb_target.h

\* C28 as stated: the canvas is (W,H) and embeds the source scaled to
\* (round(w*s), round(h*s)), s = min(W/w, H/h); the embedded size is at least
\* 1 and at most the canvas in each axis, equals the canvas in one axis, keeps
\* the aspect within 1 pixel and sits at the floor-division offsets.
C28_AsStated ==
  IsSome(lb_canvas) =>
    \E new_w \in 1 .. lb_target.w, new_h \in 1 .. lb_target.h :
       /\ IsScaledSize(new_w, new_h)
       /\ EmbedsAt(new_w, new_h)
       /\ FillsOneAxis(new_w, new_h)
       /\ KeepsAspect(new_w, new_h)

\* C28 amended: the same, with an embedded size of at least 0 in each axis:
\* it is 0 in the axis where the scaled source is thinner than half a pixel,
\* and the canvas is then entirely transparent.
C28_EmbeddedMayVanish ==
  IsSome(lb_canvas) =>
    \E new_w \in 0 .. lb_target.w, new_h \in 0 .. lb_target.h :
       /\ IsScaledSize(new_w, new_h)
       /\ EmbedsAt(new_w, new_h)
       /\ FillsOneAxis(new_w, new_h)
       /\ KeepsAspect(new_w, new_h)
       /\ (new_w = 0 \/ new_h = 0) <=>
            \/ ScaledByWidth /\ 2 * lb_source.h * lb_target.w < lb_source.w
            \/ ~ScaledByWidth /\ 2 * lb_source.w * lb_target.h < lb_source.h

\* A letterbox with margins above and below a scaled source.
C28_Witness ==
  /\ IsSome(lb_canvas)
  /\ lb_source = [w |-> 4, h |-> 2]
  /\ lb_target = [w |-> 3, h |-> 4]
  /\ Canvas.px[<<0, 0>>] = "T"
  /\ Canvas.px[<<0, 1>>] = "S"
  /\ Canvas.px[<<2, 2>>] = "S"
  /\ Canvas.px[<<2, 3>>] = "T"

\* A source so wide that its scaled height rounds to 0.
C28_VanishedSource ==
  /\ IsSome(lb_canvas)
  /\ lb_source = [w |-> 3, h |-> 1]
  /\ lb_target = [w |-> 1, h |-> 1]
  /\ \A p \in DOMAIN Canvas.px : Canvas.px[p] = "T"


(***************************************************************************)
(* C29: the finding and the contribution of the alignment heuristic        *)
(***************************************************************************)

AlignmentFindingCount ==
  Cardinality({i \in DOMAIN QualityFindings :
                 QualityFindings[i].finding_type = "AlignmentInconsistent"})

\* How many positions lie within distance d2 / 2 of one of the centers.
CountWithinHalf(positions, centers, d2) ==
  Cardinality({i \in DOMAIN positions :
                 \E j \in DOMAIN centers :
                    2 * Abs(positions[i] * centers[j].den - centers[j].num)
                      <= d2 * centers[j].den})

\* The positions within 1.5 times the tolerance of a cluster center.
AlignedPositions ==
  CountWithinHalf(SortedPositions, ClusterCenters, 3 * Tolerance(quality_viewport))

\* The unbounded score with the alignment contribution left out.
ScoreWithoutAlignment ==
  RawScore(Structure(quality_view), OcrBonus(quality_view),
           [score |-> None, finding |-> ContrastFinding],
           evaluate_spacing(collect_vertical_gaps(quality_view)),
           collect_vertical_gaps(quality_view))

TooFewPositions == QualityScored /\ Len(Positions(quality_view, quality_viewport)) < 3

\* The score and the finding for `total` positions of which `aligned` are
\* aligned, as the claim gives them.
ContributionAsClaimed(total, aligned, finding) ==
  /\ aligned + finding.message[1] = total
  /\ finding.message[3] = total
  /\ aligned \in 0 .. total
  /\ FracEq(UnboundedScore, FracAdd(ScoreWithoutAlignment, Frac(15 * aligned, 100 * total)))
  /\ finding.severity \in {"Warning", "Info"}
  /\ finding.severity = "Warning" <=> (4 * aligned < 3 * total /\ finding.message[1] >= 2)

\* C29: exactly one AlignmentInconsistent finding is returned.  With fewer
\* than 3 qualifying positions it is Info and the score gets nothing;
\* otherwise aligned + outliers is the number of positions, the score gets
\* 0.15 * aligned / total with aligned / total in [0, 1], and the finding is a
\* Warning exactly when aligned / total < 0.75 and outliers >= 2, else Info.
C29_AlignmentFinding ==
  /\ QualityScored => AlignmentFindingCount = 1
  /\ TooFewPositions =>
       /\ AlignmentFinding.severity = "Info"
       /\ FracEq(UnboundedScore, ScoreWithoutAlignment)
  /\ Clustered =>
       ContributionAsClaimed(Len(Positions(quality_view, quality_viewport)), AlignedPositions,
                             AlignmentFinding)

\* Seven positions, six of them aligned: the score gets 0.15 * 6/7 and the
\* finding stays Info.
C29_Witness ==
  /\ Clustered
  /\ AlignedPositions = 6
  /\ ReportedOutliers = 1
  /\ AlignmentFinding.severity = "Info"
  /\ FracEq(FracSub(UnboundedScore, ScoreWithoutAlignment), Frac(90, 700))

\* Two boxes only: an Info finding and no contribution.
C29_TooFew ==
  /\ TooFewPositions
  /\ Len(Positions(quality_view, quality_viewport)) = 2
  /\ AlignmentFinding.severity = "Info"

\* No view scored gets an alignment warning: a position is an outlier only
\* when the mean of its cluster has drifted more than 1.5 tolerances past it.
C29_NeverWarns ==
  QualityScored => AlignmentFinding.severity = "Info"


(***************************************************************************)
(* C30: ocr_blocks of a loaded image                                       *)
(***************************************************************************)

\* image_to_normalized_view got as far as the OCR step: the source decoded and
\* the final image was saved.
ReachedOcr ==
  /\ IsSome(load_result)
  /\ load_image(load_fs, LoadSource).ok
  /\ Unwrap(load_io).fault = "none"

LoadResult == Unwrap(load_result)

OcrAnswer == Unwrap(load_io).ocr

\* C30: image_to_normalized_view leaves ocr_blocks absent when OCR is not
\* requested; when it is requested, ocr_blocks are the extracted blocks on
\* success, ocr_blocks are absent and the view is still returned when the
\* backend is not available, and an error and no view is returned for any
\* other OCR failure.
C30_OcrBlocks ==
  ReachedOcr =>
    /\ ~load_options.enable_ocr => LoadResult.ok /\ LoadResult.val.ocr_blocks = None
    /\ (load_options.enable_ocr /\ OcrAnswer = "blocks") =>
         LoadResult.ok /\ LoadResult.val.ocr_blocks = Some(<<"block">>)
    /\ (load_options.enable_ocr /\ OcrAnswer = "empty") =>
         LoadResult.ok /\ LoadResult.val.ocr_blocks = Some(<<>>)
    /\ (load_options.enable_ocr /\ OcrAnswer = "not_available") =>
         LoadResult.ok /\ LoadResult.val.ocr_blocks = None
    /\ (load_options.enable_ocr /\ OcrAnswer = "error") =>
         /\ ~LoadResult.ok
         /\ LoadResult.val.kind = "Ocr"
         /\ load_view = None

\* OCR was requested and failed: an error, no view, the raster already saved.
C30_Witness ==
  /\ ReachedOcr
  /\ load_options.enable_ocr
  /\ OcrAnswer = "error"
  /\ ~LoadResult.ok
  /\ load_stage = "failed"
  /\ Exists(load_fs, LoadOutput)

\* OCR was requested and is not available: the view comes back without blocks.
C30_NotAvailable ==
  /\ ReachedOcr
  /\ load_options.enable_ocr
  /\ OcrAnswer = "not_available"
  /\ load_stage = "loaded"
  /\ LoadedView.ocr_blocks = None


====
